---- MODULE Spec2Model ----
(***************************************************************************)
(* pg_stat_monitor: the bucketed statistics store (pgss_store,             *)
(* get_next_wbucket, entry_alloc, entry_dealloc), the per-bucket query     *)
(* text ring (store_query, locate_query) and the query normalizer          *)
(* (fill_in_constant_lengths, generate_normalized_query), modelled from    *)
(* src/pg_stat_monitor.c.                                                  *)
(***************************************************************************)
EXTENDS Integers, Sequences, FiniteSets, TLC

(***************************************************************************)
(* Configuration values (GUCs read through the PGSM_* macros) and fixed    *)
(* sizes, scaled down.                                                     *)
(***************************************************************************)
PGSM_MAX_BUCKETS == 2
PGSM_BUCKET_TIME == 1
PGSM_QUERY_MAX_LEN == 3
PGSM_QUERY_BUF_SIZE == 72
MAX_RESPONSE_BUCKET == 4
PGSM_RESPOSE_TIME_LOWER_BOUND == 1
PGSM_RESPOSE_TIME_STEP == 2
PGSS_PLAN == 0
PGSS_EXEC == 1
UINT64_SIZE == 8

(* Bounds of the model. *)
MaxCalls == 3
MaxWindows == 2
MaxRecCalls == 4
MaxStatCalls == 3
MaxRingStores == 3
MaxDownCalls == 4
MaxStickyCalls == 3

Procs == {"p1", "p2"}
NoProc == "none"
Buckets == 0 .. (PGSM_MAX_BUCKETS - 1)
Kinds == {PGSS_PLAN, PGSS_EXEC}
AGG_KEY_DATABASE == "db"
AGG_KEY_USER == "user"
AGG_KEY_HOST == "host"

VARIABLES
    mode,               \* which harness drives the model; fixed by Init
    PGSM_MAX,           \* pg_stat_monitor.max (GUC), fixed by Init
    now,                \* wall clock, seconds (gettimeofday)
    pc,                 \* per backend: position inside the running call
    loc,                \* per backend: locals of the running call
    lock,               \* pgss->lock, the table LWLock
    current_wbucket,    \* pgss->current_wbucket
    prev_bucket_usec,   \* pgss->prev_bucket_usec
    bucket_entry,       \* pgss->bucket_entry[]
    bucket_overflow,    \* pgss->bucket_overflow[]
    pgss_hash,          \* statistics hash table: key -> entry
    pgss_agghash,       \* rollup hash table: key -> total_calls
    pgss_object_hash,   \* queryids holding an object (relation names) entry
    resp_calls,         \* pgssBucketEntries[b]->counters.resp_calls[]
    query_fifo,         \* pgss->query_fifo[b] (head, tail)
    pgss_qbuf,          \* pgss_qbuf[b][], the ring bytes
    hist                \* history: what the calls did (not program state)

vars == << mode, PGSM_MAX, now, pc, loc, lock, current_wbucket, prev_bucket_usec,
           bucket_entry, bucket_overflow, pgss_hash, pgss_agghash,
           pgss_object_hash, resp_calls, query_fifo, pgss_qbuf, hist >>

(***************************************************************************)
(* Exact rational arithmetic for the double-valued statistics: <<n, d>>    *)
(* with d > 0, in lowest terms.                                            *)
(***************************************************************************)
Abs(x) == IF x < 0 THEN -x ELSE x

RECURSIVE Gcd(_, _)
Gcd(a, b) == IF b = 0 THEN a ELSE Gcd(b, a % b)

Rat(n, d) ==
    LET s == IF d < 0 THEN -1 ELSE 1
        g == Gcd(Abs(n), Abs(d))
    IN  << (s * n) \div g, (s * d) \div g >>

RatInt(n) == << n, 1 >>
RatAdd(a, b) == Rat(a[1] * b[2] + b[1] * a[2], a[2] * b[2])
RatSub(a, b) == Rat(a[1] * b[2] - b[1] * a[2], a[2] * b[2])
RatMul(a, b) == Rat(a[1] * b[1], a[2] * b[2])
RatDivInt(a, n) == Rat(a[1], a[2] * n)
RatLess(a, b) == a[1] * b[2] < b[1] * a[2]

(***************************************************************************)
(* Counters of one pgssEntry, per kind.                                    *)
(***************************************************************************)
ZeroCounters ==
    [ calls        |-> [k \in Kinds |-> 0],
      total_time   |-> [k \in Kinds |-> 0],
      min_time     |-> [k \in Kinds |-> 0],
      max_time     |-> [k \in Kinds |-> 0],
      mean_time    |-> [k \in Kinds |-> RatInt(0)],
      sum_var_time |-> [k \in Kinds |-> RatInt(0)],
      rows         |-> [k \in Kinds |-> 0],
      usage        |-> [k \in Kinds |-> << "zero", 0 >>] ]

(* entry_alloc seeding every new entry with USAGE_INIT. *)
NewCountersDefault(sticky) ==
    [ ZeroCounters EXCEPT !.usage[0] = << "init", 0 >> ]

(* entry_alloc's initialisation of a new entry: usage of calls[0] only. *)
NewCounters(sticky) ==
    [ ZeroCounters EXCEPT !.usage[0] = << IF sticky THEN "median" ELSE "init", 0 >> ]

(* The update with min_time and max_time not seeded by the first call. *)
UpdateCountersUnseeded(c, kind, total_time, rows) ==
    [ c EXCEPT !.calls[kind] = @ + 1,
               !.total_time[kind] = @ + total_time,
               !.min_time[kind] = IF @ > total_time THEN total_time ELSE @,
               !.max_time[kind] = IF @ < total_time THEN total_time ELSE @,
               !.mean_time[kind] =
                   RatAdd(@, RatDivInt(RatSub(RatInt(total_time), @), c.calls[kind] + 1)),
               !.rows[kind] = @ + rows ]

(* The update with the variance accumulated around the old mean only. *)
UpdateCountersOldMean(c, kind, total_time, rows) ==
    LET n    == c.calls[kind] + 1
        t    == RatInt(total_time)
        old  == c.mean_time[kind]
    IN  [ c EXCEPT !.calls[kind] = n,
                   !.total_time[kind] = @ + total_time,
                   !.min_time[kind] = IF n = 1 \/ @ > total_time THEN total_time ELSE @,
                   !.max_time[kind] = IF n = 1 \/ @ < total_time THEN total_time ELSE @,
                   !.mean_time[kind] = IF n = 1 THEN t
                                       ELSE RatAdd(old, RatDivInt(RatSub(t, old), n)),
                   !.sum_var_time[kind] =
                       IF n = 1 THEN @
                       ELSE RatAdd(@, RatMul(RatSub(t, old), RatSub(t, old))),
                   !.rows[kind] = @ + rows ]

(* The timing part of pgss_store's update, for one measurement of `kind'. *)
UpdateCounters(c, kind, total_time, rows) ==
    LET n      == c.calls[kind] + 1
        usage0 == IF c.calls[kind] = 0 THEN << "init", 0 >> ELSE c.usage[kind]
        t      == RatInt(total_time)
        old    == c.mean_time[kind]
        mean   == RatAdd(old, RatDivInt(RatSub(t, old), n))
        svar   == RatAdd(c.sum_var_time[kind],
                         RatMul(RatSub(t, old), RatSub(t, mean)))
    IN  IF n = 1
        THEN [ c EXCEPT !.calls[kind] = n,
                        !.total_time[kind] = @ + total_time,
                        !.min_time[kind] = total_time,
                        !.max_time[kind] = total_time,
                        !.mean_time[kind] = t,
                        !.rows[kind] = @ + rows,
                        !.usage[kind] = << usage0[1], usage0[2] + 1 >> ]
        ELSE [ c EXCEPT !.calls[kind] = n,
                        !.total_time[kind] = @ + total_time,
                        !.mean_time[kind] = mean,
                        !.sum_var_time[kind] = svar,
                        !.min_time[kind] = IF @ > total_time THEN total_time ELSE @,
                        !.max_time[kind] = IF @ < total_time THEN total_time ELSE @,
                        !.rows[kind] = @ + rows,
                        !.usage[kind] = << usage0[1], usage0[2] + 1 >> ]

(* The response-time histogram part of pgss_store's update. *)
RespLoopHits(total_time) ==
    { i \in 0 .. (MAX_RESPONSE_BUCKET - 2) :
        total_time < PGSM_RESPOSE_TIME_LOWER_BOUND + (PGSM_RESPOSE_TIME_STEP * i) }

Min(S) == CHOOSE x \in S : \A y \in S : x <= y

RespUpdate(r, total_time) ==
    LET hits == RespLoopHits(total_time)
        r1   == IF hits # {} THEN [ r EXCEPT ![Min(hits)] = @ + 1 ] ELSE r
    IN  IF total_time > PGSM_RESPOSE_TIME_LOWER_BOUND
                          + (PGSM_RESPOSE_TIME_STEP * MAX_RESPONSE_BUCKET)
        THEN [ r1 EXCEPT ![MAX_RESPONSE_BUCKET - 1] = @ + 1 ]
        ELSE r1

ZeroResp == [i \in 0 .. (MAX_RESPONSE_BUCKET - 1) |-> 0]

(***************************************************************************)
(* The per-bucket text ring: bytes, with records                           *)
(* (uint64 queryid, uint64 length, text bytes).                            *)
(***************************************************************************)
query_buf_size_bucket == PGSM_QUERY_BUF_SIZE \div PGSM_MAX_BUCKETS
RingOffsets == 0 .. (query_buf_size_bucket - 1)
HeaderSize == UINT64_SIZE + UINT64_SIZE
BigValue == 1073741824
LocateHang == -1

ZeroBuf == [i \in RingOffsets |-> 0]

(* A byte of the ring; a read past the end of the allocation yields 0. *)
BufAt(buf, i) == IF i \in RingOffsets THEN buf[i] ELSE 0

(* memcpy(&v, &buf[off], sizeof(uint64)), little endian. *)
Read64(buf, off) ==
    IF \E i \in 4 .. (UINT64_SIZE - 1) : BufAt(buf, off + i) # 0
    THEN BigValue
    ELSE BufAt(buf, off) + 256 * BufAt(buf, off + 1)
         + 65536 * BufAt(buf, off + 2) + 16777216 * BufAt(buf, off + 3)

(* 256^i modulo the ring size, and the uint64 at off modulo the ring size  *)
(* (exact whatever the high bytes are: the bytes here stay below 128, so   *)
(* tail + offset does not pass 2^64).                                      *)
RECURSIVE Pow256Mod(_)
Pow256Mod(i) == IF i = 0 THEN 1 % query_buf_size_bucket
                ELSE (256 * Pow256Mod(i - 1)) % query_buf_size_bucket

RECURSIVE Read64ModFrom(_, _, _)
Read64ModFrom(buf, off, i) ==
    IF i = UINT64_SIZE THEN 0
    ELSE (BufAt(buf, off + i) * Pow256Mod(i) + Read64ModFrom(buf, off, i + 1))
            % query_buf_size_bucket

Read64Mod(buf, off) == Read64ModFrom(buf, off, 0)

(* memcpy(&buf[off], &v, sizeof(uint64)) for v < 256, and memcpy of text;  *)
(* bytes that fall past the end of the allocation do not land in the ring. *)
WriteRecord(buf, off, queryid, len, text) ==
    [ i \in RingOffsets |->
        IF i = off THEN queryid
        ELSE IF i = off + UINT64_SIZE THEN len
        ELSE IF i > off /\ i < off + HeaderSize THEN 0
        ELSE IF i >= off + HeaderSize /\ i < off + HeaderSize + len
             THEN text[i - (off + HeaderSize) + 1]
        ELSE buf[i] ]

ReadText(buf, off, len) ==
    [ j \in 1 .. (IF len > query_buf_size_bucket THEN query_buf_size_bucket ELSE len)
        |-> BufAt(buf, off + j - 1) ]

(* locate_query: scan from tail to head.  id = 0: not found;               *)
(* id = LocateHang: the scan never meets head (fuel counts the records).   *)
RECURSIVE LocateFrom(_, _, _, _, _)
LocateFrom(buf, head, tail, queryid, fuel) ==
    IF head = tail THEN [ id |-> 0, query |-> << >> ]
    ELSE IF fuel = 0 THEN [ id |-> LocateHang, query |-> << >> ]
    ELSE LET id  == Read64(buf, tail)
             len == Read64(buf, tail + UINT64_SIZE)
         IN  IF len = 0 THEN [ id |-> 0, query |-> << >> ]
             ELSE IF id = queryid
                  THEN [ id |-> id, query |-> ReadText(buf, tail + HeaderSize, len) ]
             ELSE LocateFrom(buf, head,
                             (tail + HeaderSize + Read64Mod(buf, tail + UINT64_SIZE))
                                % query_buf_size_bucket,
                             queryid, fuel - 1)

locate_query(fifo, buf, queryid) ==
    LocateFrom(buf, fifo.head, fifo.tail, queryid, query_buf_size_bucket)

(* store_query up to the "buffer is full" test: what it decides. *)
StoreNext(head, query_len) ==
    LET len  == IF query_len > PGSM_QUERY_MAX_LEN THEN PGSM_QUERY_MAX_LEN ELSE query_len
        nxt  == head + len + HeaderSize
    IN  IF nxt >= query_buf_size_bucket THEN 0 ELSE nxt

(* store_query without its locate_query call. *)
StoreDecisionNoFind(fifo, buf, queryid, query_len) ==
    IF StoreNext(fifo.head, query_len) = fifo.head THEN "full" ELSE "write"

StoreDecision(fifo, buf, queryid, query_len) ==
    LET found == locate_query(fifo, buf, queryid)
        nxt   == StoreNext(fifo.head, query_len)
    IN  IF found.id = LocateHang THEN "hang"
        ELSE IF found.id = queryid THEN "present"
        ELSE IF nxt = fifo.head THEN "full"
        ELSE "write"

(* store_query's memcpy calls and head update, at the head as it is now. *)
StoreWriteBuf(fifo, buf, queryid, query, query_len) ==
    LET len == IF query_len > PGSM_QUERY_MAX_LEN THEN PGSM_QUERY_MAX_LEN ELSE query_len
    IN  WriteRecord(buf, fifo.head, queryid, len, query)

(* store_query as a whole (no other process in between). *)
store_query(fifo, buf, queryid, query, query_len) ==
    IF StoreDecision(fifo, buf, queryid, query_len) = "write"
    THEN [ fifo |-> [ fifo EXCEPT !.head = StoreNext(fifo.head, query_len) ],
           buf  |-> StoreWriteBuf(fifo, buf, queryid, query, query_len) ]
    ELSE [ fifo |-> fifo, buf |-> buf ]

(***************************************************************************)
(* Inputs of the calls, by harness.                                        *)
(***************************************************************************)
PGSM_NORMALIZED_QUERY == TRUE
HostId == 7
DbId == 1

UserId == 1

QueryIds == {1, 2}
Durations == {0, 1, 2, 3, 5, 9, 10}

(* The measurements a record call may bring: <<queryid, kind, total_time>>. *)
(* The statistics harness varies kind and duration of queryid 1; queryid 2  *)
(* only takes up room in the table.                                         *)
RecordInputs ==
    IF mode = "stat"
    THEN ({1} \X Kinds \X Durations) \cup { << 2, PGSS_EXEC, 1 >> }
    ELSE IF mode = "sticky" THEN QueryIds \X Kinds \X {1}
    ELSE QueryIds \X {PGSS_EXEC} \X {1}

CallLimit ==
    IF mode = "conc" THEN MaxCalls
    ELSE IF mode = "down" THEN MaxDownCalls
    ELSE IF mode = "sticky" THEN MaxStickyCalls
    ELSE IF mode = "rec" THEN MaxRecCalls
    ELSE IF mode = "ring" THEN MaxRingStores
    ELSE MaxStatCalls

(* Fingerprints and statement texts handed to the text ring on its own:    *)
(* texts of 1 .. PGSM_QUERY_MAX_LEN + 1 bytes, two contents per length.     *)
RingQueryIds == 1 .. 3
RingTexts ==
    { [j \in 1 .. n |-> 10 * c + j] : n \in 1 .. (PGSM_QUERY_MAX_LEN + 1), c \in {1, 2} }

(* The statement text of a fingerprint: raw, and normalized ($n); the      *)
(* bytes are letters ('a' + q, 'B' + q).                                   *)
RawText(q) == [j \in 1 .. (q + 1) |-> 97 + q]
NormText(q) == [j \in 1 .. q |-> 66 + q]

NoKey == << >>
Key(userid, dbid, queryid, bucket_id) == << userid, dbid, queryid, bucket_id >>
KeyBucket(k) == k[4]
KeyQuery(k) == k[3]
AggKey(bucket_id, type, id, queryid) == << bucket_id, type, id, queryid >>

IdleLoc ==
    [ op |-> "none", queryid |-> 0, userid |-> 0, kind |-> 0, total_time |-> 0,
      bucket_id |-> 0, current_usec |-> 0, reset |-> FALSE, norm |-> FALSE,
      next |-> 0, todo |-> {} ]

(* pgss_store never told that the call only registers a text. *)
jstateNull(p) == FALSE

jstate(p) == loc[p].op = "register"
LocKey(p) == Key(loc[p].userid, DbId, loc[p].queryid, loc[p].bucket_id)

(***************************************************************************)
(* pgss->lock (LWLock) and the per-entry spinlock.                         *)
(***************************************************************************)
CanShared(p) == lock.x = NoProc
CanExclusive(p) == lock.x = NoProc /\ lock.s = {}
HoldsLock(p) == lock.x = p \/ p \in lock.s
AcquireShared(p) == [ lock EXCEPT !.s = @ \cup {p} ]
AcquireExclusive(p) == [ lock EXCEPT !.x = p ]
(* A release that leaves the lock as it is. *)
LWLockReleaseSkipped(p) == lock

LWLockRelease(p) ==
    [ x |-> IF lock.x = p THEN NoProc ELSE lock.x, s |-> lock.s \ {p} ]

(* SpinLockAcquire(&e->mutex) returns once the entry's mutex is free. *)
SpinLockFree(k) == k \in DOMAIN pgss_hash => pgss_hash[k].mutex = NoProc

(* locate_query's loop over the ring of bucket b comes to an end. *)
ScanEnds(b, queryid) ==
    locate_query(query_fifo[b], pgss_qbuf[b], queryid).id # LocateHang

(***************************************************************************)
(* entry_dealloc(bucket): remove the entries and the rollup entries of     *)
(* `bucket' (all of them when bucket < 0).  bucket_entry[-1] is outside    *)
(* the array: no slot of it is written.                                    *)
(***************************************************************************)
DeallocVictims(h, bucket) ==
    [ k \in { k \in DOMAIN h : KeyBucket(k) = bucket \/ bucket < 0 } |-> h[k] ]

(* Eviction that re-tags the bucket's entries with the next bucket id. *)
DeallocHashRekeyed(h, bucket) ==
    LET stay  == { k \in DOMAIN h : KeyBucket(k) # bucket }
        moved == { << k[1], k[2], k[3], (k[4] + 1) % PGSM_MAX_BUCKETS >> :
                     k \in { k \in DOMAIN h : KeyBucket(k) = bucket } }
    IN  [ k \in stay \cup moved |->
            IF k \in stay THEN h[k] ELSE h[<< k[1], k[2], k[3], bucket >>] ]

DeallocHash(h, bucket) ==
    [ k \in DOMAIN h \ DOMAIN DeallocVictims(h, bucket) |-> h[k] ]

(* Eviction that empties the rollup table, whatever the bucket. *)
DeallocAggAll(h, bucket) == << >>

DeallocAgg(h, bucket) ==
    [ k \in { k \in DOMAIN h : ~(k[1] = bucket \/ bucket < 0) } |-> h[k] ]

DeallocBucketEntry(be, bucket) ==
    IF bucket \in Buckets THEN [ be EXCEPT ![bucket] = 0 ] ELSE be

(* get_next_wbucket's test; the subtraction is unsigned. *)
RotationDue(current_usec, prev) ==
    IF current_usec >= prev THEN (current_usec - prev) > PGSM_BUCKET_TIME ELSE TRUE

NextBucketId(b) == IF b + 1 = PGSM_MAX_BUCKETS THEN 0 ELSE b + 1

(* A rollup entry that counts its first call only. *)
update_agg_countersOnce(h, bucket, queryid, id, type) ==
    LET k == AggKey(bucket, type, id, queryid)
    IN  IF k \in DOMAIN h THEN h ELSE (k :> 1) @@ h

(* update_agg_counters: find or create the rollup entry, count one call. *)
update_agg_counters(h, bucket, queryid, id, type) ==
    LET k == AggKey(bucket, type, id, queryid)
    IN  IF k \in DOMAIN h THEN [ h EXCEPT ![k] = @ + 1 ] ELSE (k :> 1) @@ h

(***************************************************************************)
(* History of the rotations (kept by the record-only harness): how many    *)
(* evictions get_next_wbucket has run, the bucket of the latest one, and   *)
(* for each entry and rollup entry the rotation count at its creation      *)
(* (for an entry also: whether its bucket was the one the latest rotation  *)
(* made current).                                                          *)
(***************************************************************************)
HistRotation(bucket) ==
    IF mode = "rec"
    THEN [ hist EXCEPT !.rot = @ + 1, !.last = bucket,
             !.born = [ k \in { k \in DOMAIN @ : KeyBucket(k) # bucket } |-> @[k] ],
             !.aggborn = [ k \in { k \in DOMAIN @ : k[1] # bucket } |-> @[k] ] ]
    ELSE hist

HistCreated(k) ==
    IF mode = "rec"
    THEN [ hist EXCEPT !.born = (k :> << hist.rot, KeyBucket(k) = hist.last >>) @@ @ ]
    ELSE hist

HistRollups(ks) ==
    IF mode = "rec"
    THEN [ hist EXCEPT !.aggborn = [ k \in ks |-> hist.rot ] @@ @ ]
    ELSE hist

(***************************************************************************)
(* The calls.  Each backend runs one call at a time; pc[p] is its place.   *)
(***************************************************************************)
storeVars == << current_wbucket, prev_bucket_usec, bucket_entry, bucket_overflow,
                pgss_hash, pgss_agghash, pgss_object_hash, resp_calls,
                query_fifo, pgss_qbuf >>
confVars == << mode, PGSM_MAX >>

Goto(p, l) == pc' = [ pc EXCEPT ![p] = l ]

(* A backend may start a call; the sequential harnesses run one at a time. *)
MayStart(p) ==
    /\ pc[p] = "idle"
    /\ hist.ncalls < CallLimit
    /\ mode \in {"stat", "sticky"} => p = "p1"

(* GetUserId() of the calling session, line 904: the harness of one        *)
(* backend runs statements of two users.                                   *)
UserIds == IF mode = "sticky" THEN {UserId, UserId + 1} ELSE {UserId}

(* pgss_ExecutorEnd / pgss_planner_hook: pgss_store with a measurement. *)
Record(p) ==
    /\ mode \in {"conc", "rec", "stat", "down", "sticky"}
    /\ MayStart(p)
    /\ \E in \in RecordInputs, u \in UserIds :
        /\ loc' = [ loc EXCEPT ![p] = [ IdleLoc EXCEPT !.op = "record", !.queryid = in[1],
                                          !.userid = u, !.kind = in[2],
                                          !.total_time = in[3] ] ]
        /\ hist' = [ hist EXCEPT !.ncalls = @ + 1,
                                  !.owner[in[1]] = IF @ \in {NoProc, p} THEN p ELSE "many",
                                  !.plain = IF mode = "sticky" /\ in[1] \notin hist.registered
                                            THEN @ \cup {in[1]} ELSE @ ]
    /\ Goto(p, "obj")
    /\ UNCHANGED << confVars, now, lock, storeVars >>

(* The fingerprints of the statements with constants seen so far (kept by *)
(* the harness of one backend); plain are the fingerprints measured with   *)
(* no registration before, those of statements without constants.          *)
HistRegistered(q) ==
    [ hist EXCEPT !.ncalls = @ + 1,
                  !.registered = IF mode = "sticky" THEN @ \cup {q} ELSE @ ]

(* pgss_post_parse_analyze for a statement with constants. *)
RegisterText(p) ==
    /\ mode \in {"conc", "down", "sticky"}
    /\ MayStart(p)
    /\ \E q \in QueryIds :
        loc' = [ loc EXCEPT ![p] = [ IdleLoc EXCEPT !.op = "register",
                                       !.queryid = q, !.userid = UserId ] ]
    /\ Goto(p, "ppa")
    /\ \E q \in {loc'[p].queryid} : hist' = HistRegistered(q)
    /\ UNCHANGED << confVars, now, lock, storeVars >>

(* pgss_post_parse_analyze, lines 437-439: add_object_entry under the      *)
(* exclusive lock; then pgss_store with the jumble state.                  *)
AddObjectEntry(p) ==
    /\ pc[p] = "ppa"
    /\ CanExclusive(p)
    /\ pgss_object_hash' = pgss_object_hash \cup {loc[p].queryid}
    /\ Goto(p, "obj")
    /\ UNCHANGED << confVars, now, loc, lock, current_wbucket, prev_bucket_usec,
                    bucket_entry, bucket_overflow, pgss_hash, pgss_agghash,
                    resp_calls, query_fifo, pgss_qbuf, hist >>

(* pgss_store, lines 885-901: take the object entry of the queryid. *)
StoreObject(p) ==
    /\ pc[p] = "obj"
    /\ CanShared(p)
    /\ IF loc[p].queryid \in pgss_object_hash
       THEN Goto(p, "obj_x")
       ELSE Goto(p, "gnw")
    /\ UNCHANGED << confVars, now, loc, lock, storeVars, hist >>

StoreObjectRemove(p) ==
    /\ pc[p] = "obj_x"
    /\ CanExclusive(p)
    /\ pgss_object_hash' = pgss_object_hash \ {loc[p].queryid}
    /\ Goto(p, "gnw")
    /\ UNCHANGED << confVars, now, loc, lock, current_wbucket, prev_bucket_usec,
                    bucket_entry, bucket_overflow, pgss_hash, pgss_agghash,
                    resp_calls, query_fifo, pgss_qbuf, hist >>

(* get_next_wbucket with a catch-up: one position per window elapsed. *)
GetNextWBucketCatchUp(p) ==
    /\ pc[p] = "gnw"
    /\ IF RotationDue(now, prev_bucket_usec)
       THEN /\ loc' = [ loc EXCEPT
                         ![p].bucket_id =
                             ( current_wbucket
                                 + ( (now - prev_bucket_usec) \div (PGSM_BUCKET_TIME + 1) ) )
                               % PGSM_MAX_BUCKETS,
                         ![p].current_usec = now ]
            /\ Goto(p, "gnw_lock")
       ELSE /\ loc' = [ loc EXCEPT ![p].bucket_id = current_wbucket ]
            /\ Goto(p, "cmp")
    /\ UNCHANGED << confVars, now, lock, storeVars, hist >>

(* get_next_wbucket, lines 1396-1403: read the clock, decide. *)
GetNextWBucket(p) ==
    /\ pc[p] = "gnw"
    /\ IF RotationDue(now, prev_bucket_usec)
       THEN /\ loc' = [ loc EXCEPT ![p].bucket_id = NextBucketId(current_wbucket),
                                   ![p].current_usec = now ]
            /\ Goto(p, "gnw_lock")
       ELSE /\ loc' = [ loc EXCEPT ![p].bucket_id = current_wbucket ]
            /\ Goto(p, "cmp")
    /\ UNCHANGED << confVars, now, lock, storeVars, hist >>

(* get_next_wbucket, line 1405. *)
RotateLock(p) ==
    /\ pc[p] = "gnw_lock"
    /\ CanExclusive(p)
    /\ lock' = AcquireExclusive(p)
    /\ Goto(p, "gnw_evict")
    /\ UNCHANGED << confVars, now, loc, storeVars, hist >>

(* get_next_wbucket, lines 1406-1410: entry_dealloc, reset the ring. *)
RotateEvict(p) ==
    /\ pc[p] = "gnw_evict"
    /\ pgss_hash' = DeallocHash(pgss_hash, loc[p].bucket_id)
    /\ pgss_agghash' = DeallocAgg(pgss_agghash, loc[p].bucket_id)
    /\ bucket_entry' = DeallocBucketEntry(bucket_entry, loc[p].bucket_id)
    /\ query_fifo' = [ query_fifo EXCEPT ![loc[p].bucket_id] = [ head |-> 0, tail |-> 0 ] ]
    /\ lock' = LWLockRelease(p)
    /\ hist' = HistRotation(loc[p].bucket_id)
    /\ Goto(p, "gnw_ts")
    /\ UNCHANGED << confVars, now, loc, current_wbucket, prev_bucket_usec,
                    bucket_overflow, pgss_object_hash, resp_calls, pgss_qbuf >>

(* get_next_wbucket, lines 1412-1415. *)
RotateStamp(p) ==
    /\ pc[p] = "gnw_ts"
    /\ prev_bucket_usec' = loc[p].current_usec
    /\ Goto(p, "cmp")
    /\ UNCHANGED << confVars, now, loc, lock, current_wbucket, bucket_entry,
                    bucket_overflow, pgss_hash, pgss_agghash, pgss_object_hash,
                    resp_calls, query_fifo, pgss_qbuf, hist >>

(* pgss_store, lines 909-913. *)
StoreSetBucket(p) ==
    /\ pc[p] = "cmp"
    /\ IF loc[p].bucket_id # current_wbucket
       THEN /\ loc' = [ loc EXCEPT ![p].reset = TRUE ]
            /\ current_wbucket' = loc[p].bucket_id
       ELSE UNCHANGED << loc, current_wbucket >>
    /\ Goto(p, "find_lock")
    /\ UNCHANGED << confVars, now, lock, prev_bucket_usec, bucket_entry,
                    bucket_overflow, pgss_hash, pgss_agghash, pgss_object_hash,
                    resp_calls, query_fifo, pgss_qbuf, hist >>

(* pgss_store, line 916. *)
StoreFindLock(p) ==
    /\ pc[p] = "find_lock"
    /\ CanShared(p)
    /\ lock' = AcquireShared(p)
    /\ Goto(p, "find")
    /\ UNCHANGED << confVars, now, loc, storeVars, hist >>

(* pgss_store, lines 917-937: look the key up; release when absent. *)
StoreFind(p) ==
    /\ pc[p] = "find"
    /\ IF LocKey(p) \in DOMAIN pgss_hash
       THEN /\ Goto(p, "sq")
            /\ UNCHANGED lock
       ELSE /\ lock' = LWLockRelease(p)
            /\ Goto(p, IF jstate(p) THEN "norm" ELSE "x_lock")
    /\ UNCHANGED << confVars, now, loc, storeVars, hist >>

(* pgss_store, lines 930-937: normalize, retake and drop the shared lock. *)
StoreNormalize(p) ==
    /\ pc[p] = "norm"
    /\ CanShared(p)
    /\ loc' = [ loc EXCEPT ![p].norm = TRUE ]
    /\ Goto(p, "x_lock")
    /\ UNCHANGED << confVars, now, lock, storeVars, hist >>

(* pgss_store, line 938. *)
StoreExclusiveLock(p) ==
    /\ pc[p] = "x_lock"
    /\ CanExclusive(p)
    /\ lock' = AcquireExclusive(p)
    /\ Goto(p, "alloc")
    /\ UNCHANGED << confVars, now, loc, storeVars, hist >>

(* The capacity tests with the failure ignored: the call goes on to        *)
(* store_query as if an entry had been made.                               *)
EntryAllocCheckGoesOn(p) ==
    /\ pc[p] = "alloc"
    /\ Goto(p, IF bucket_entry[current_wbucket] >= (PGSM_MAX \div PGSM_MAX_BUCKETS)
                   \/ Cardinality(DOMAIN pgss_hash) >= PGSM_MAX
                THEN "sq" ELSE "alloc2")
    /\ UNCHANGED << confVars, now, loc, lock, storeVars, hist >>

(* entry_alloc, lines 1361-1368: the two capacity tests. *)
EntryAllocCheck(p) ==
    /\ pc[p] = "alloc"
    /\ IF bucket_entry[current_wbucket] >= (PGSM_MAX \div PGSM_MAX_BUCKETS)
       THEN /\ bucket_overflow' = [ bucket_overflow EXCEPT ![current_wbucket] = @ + 1 ]
            /\ hist' = [ hist EXCEPT !.dropped[loc[p].queryid] = TRUE ]
            /\ Goto(p, "exit")
       ELSE IF Cardinality(DOMAIN pgss_hash) >= PGSM_MAX
       THEN /\ hist' = [ hist EXCEPT !.dropped[loc[p].queryid] = TRUE ]
            /\ Goto(p, "exit")
            /\ UNCHANGED bucket_overflow
       ELSE /\ Goto(p, "alloc2")
            /\ UNCHANGED << bucket_overflow, hist >>
    /\ UNCHANGED << confVars, now, loc, lock, current_wbucket, prev_bucket_usec,
                    bucket_entry, pgss_hash, pgss_agghash, pgss_object_hash,
                    resp_calls, query_fifo, pgss_qbuf >>

(* entry_alloc, lines 1371-1386: hash_search(HASH_ENTER), initialise. *)
EntryAllocEnter(p) ==
    /\ pc[p] = "alloc2"
    /\ IF LocKey(p) \in DOMAIN pgss_hash
       THEN UNCHANGED << pgss_hash, bucket_entry, hist >>
       ELSE /\ bucket_entry' = [ bucket_entry EXCEPT ![current_wbucket] = @ + 1 ]
            /\ pgss_hash' = (LocKey(p) :> [ counters |-> NewCounters(jstate(p)),
                                            mutex |-> NoProc ]) @@ pgss_hash
            /\ hist' = HistCreated(LocKey(p))
    /\ Goto(p, "sq")
    /\ UNCHANGED << confVars, now, loc, lock, current_wbucket, prev_bucket_usec,
                    bucket_overflow, pgss_agghash, pgss_object_hash,
                    resp_calls, query_fifo, pgss_qbuf >>

(* The text and length pgss_store hands to store_query (lines 946-949). *)
StoredQuery(p) == IF loc[p].norm THEN NormText(loc[p].queryid) ELSE RawText(loc[p].queryid)

(* store_query, lines 2628-2646, on the bucket that is current now. *)
StoreQueryCheck(p) ==
    /\ pc[p] = "sq"
    /\ ScanEnds(current_wbucket, loc[p].queryid)
    /\ LET d == StoreDecision(query_fifo[current_wbucket], pgss_qbuf[current_wbucket],
                              loc[p].queryid, Len(StoredQuery(p)))
       IN  /\ IF d = "write"
              THEN /\ loc' = [ loc EXCEPT ![p].next =
                                 StoreNext(query_fifo[current_wbucket].head,
                                           Len(StoredQuery(p))) ]
                   /\ Goto(p, "sq2")
              ELSE /\ Goto(p, "upd_lock")
                   /\ UNCHANGED loc
    /\ UNCHANGED << confVars, now, lock, storeVars, hist >>

(* store_query, lines 2648-2657: the memcpy calls and the head update. *)
StoreQueryWrite(p) ==
    /\ pc[p] = "sq2"
    /\ pgss_qbuf' = [ pgss_qbuf EXCEPT ![current_wbucket] =
                        StoreWriteBuf(query_fifo[current_wbucket], @, loc[p].queryid,
                                      StoredQuery(p), Len(StoredQuery(p))) ]
    /\ query_fifo' = [ query_fifo EXCEPT ![current_wbucket].head = loc[p].next ]
    /\ Goto(p, "upd_lock")
    /\ UNCHANGED << confVars, now, loc, lock, current_wbucket, prev_bucket_usec,
                    bucket_entry, bucket_overflow, pgss_hash, pgss_agghash,
                    pgss_object_hash, resp_calls, hist >>

(* pgss_store, lines 958-961: SpinLockAcquire(&e->mutex) unless jstate. *)
StoreSpinLock(p) ==
    /\ pc[p] = "upd_lock"
    /\ IF jstate(p)
       THEN /\ Goto(p, "exit")
            /\ UNCHANGED pgss_hash
       ELSE /\ SpinLockFree(LocKey(p))
            /\ pgss_hash' = IF LocKey(p) \in DOMAIN pgss_hash
                            THEN [ pgss_hash EXCEPT ![LocKey(p)].mutex = p ]
                            ELSE pgss_hash
            /\ Goto(p, "upd")
    /\ UNCHANGED << confVars, now, loc, lock, current_wbucket, prev_bucket_usec,
                    bucket_entry, bucket_overflow, pgss_agghash, pgss_object_hash,
                    resp_calls, query_fifo, pgss_qbuf, hist >>

(* The update without SpinLockRelease (line 1034). *)
StoreUpdateKeepsSpinLock(p) ==
    /\ pc[p] = "upd"
    /\ LET k  == LocKey(p)
           b  == KeyBucket(k)
           a1 == update_agg_counters(pgss_agghash, b, loc[p].queryid, DbId, AGG_KEY_DATABASE)
           a2 == update_agg_counters(a1, b, loc[p].queryid, loc[p].userid, AGG_KEY_USER)
           a3 == update_agg_counters(a2, b, loc[p].queryid, HostId, AGG_KEY_HOST)
       IN  /\ pgss_agghash' = a3
           /\ hist' = HistRollups(DOMAIN a3 \ DOMAIN pgss_agghash)
           /\ resp_calls' = [ resp_calls EXCEPT ![b] = RespUpdate(@, loc[p].total_time) ]
           /\ IF k \in DOMAIN pgss_hash
              THEN pgss_hash' =
                     [ pgss_hash EXCEPT ![k] =
                         [ counters |-> UpdateCounters(
                                          IF loc[p].reset THEN ZeroCounters ELSE @.counters,
                                          loc[p].kind, loc[p].total_time, 1),
                           mutex |-> p ] ]
              ELSE UNCHANGED pgss_hash
    /\ Goto(p, "exit")
    /\ UNCHANGED << confVars, now, loc, lock, current_wbucket, prev_bucket_usec,
                    bucket_entry, bucket_overflow, pgss_object_hash,
                    query_fifo, pgss_qbuf >>

(* pgss_store, lines 963-1034: the update under the entry's spinlock.      *)
(* An entry removed meanwhile leaves only its freed element to write to.   *)
StoreUpdate(p) ==
    /\ pc[p] = "upd"
    /\ LET k  == LocKey(p)
           b  == KeyBucket(k)
           a1 == update_agg_counters(pgss_agghash, b, loc[p].queryid, DbId, AGG_KEY_DATABASE)
           a2 == update_agg_counters(a1, b, loc[p].queryid, loc[p].userid, AGG_KEY_USER)
           a3 == update_agg_counters(a2, b, loc[p].queryid, HostId, AGG_KEY_HOST)
       IN  /\ pgss_agghash' = a3
           /\ hist' = HistRollups(DOMAIN a3 \ DOMAIN pgss_agghash)
           /\ resp_calls' = [ resp_calls EXCEPT ![b] = RespUpdate(@, loc[p].total_time) ]
           /\ IF k \in DOMAIN pgss_hash
              THEN pgss_hash' =
                     [ pgss_hash EXCEPT ![k] =
                         [ counters |-> UpdateCounters(
                                          IF loc[p].reset THEN ZeroCounters ELSE @.counters,
                                          loc[p].kind, loc[p].total_time, 1),
                           mutex |-> NoProc ] ]
              ELSE UNCHANGED pgss_hash
    /\ Goto(p, "exit")
    /\ UNCHANGED << confVars, now, loc, lock, current_wbucket, prev_bucket_usec,
                    bucket_entry, bucket_overflow, pgss_object_hash,
                    query_fifo, pgss_qbuf >>

(* pgss_store, lines 1038-1044: release the table lock and return. *)
StoreExit(p) ==
    /\ pc[p] = "exit"
    /\ lock' = LWLockRelease(p)
    /\ loc' = [ loc EXCEPT ![p] = IdleLoc ]
    /\ hist' = IF loc[p].op = "record"
               THEN [ hist EXCEPT !.done[loc[p].queryid] = @ + 1,
                                  !.seq[loc[p].kind] =
                                      IF mode = "stat" /\ loc[p].queryid = 1
                                      THEN Append(@, loc[p].total_time) ELSE @ ]
               ELSE hist
    /\ Goto(p, "idle")
    /\ UNCHANGED << confVars, now, storeVars >>

(* pg_stat_monitor_internal, line 1218: the scan starts. *)
SnapshotLock(p) ==
    /\ mode = "conc"
    /\ MayStart(p)
    /\ CanShared(p)
    /\ lock' = AcquireShared(p)
    /\ loc' = [ loc EXCEPT ![p] = [ IdleLoc EXCEPT !.op = "snapshot",
                                      !.todo = DOMAIN pgss_hash ] ]
    /\ Goto(p, "snap")
    /\ hist' = [ hist EXCEPT !.ncalls = @ + 1 ]
    /\ UNCHANGED << confVars, now, storeVars >>

(* The entry hash_seq_search hands out next, and what reading it waits for *)
(* (an entry removed meanwhile is not visited).                            *)
SnapshotNext(p) == CHOOSE k \in loc[p].todo : TRUE

(* The copy taken without SpinLockAcquire. *)
SnapshotCanReadUnlocked(k) ==
    k \in DOMAIN pgss_hash => ScanEnds(KeyBucket(k), KeyQuery(k))

SnapshotCanRead(k) ==
    k \in DOMAIN pgss_hash => SpinLockFree(k) /\ ScanEnds(KeyBucket(k), KeyQuery(k))

(* pg_stat_monitor_internal, lines 1221-1314: one entry of the scan:       *)
(* locate_query, then copy the counters under the entry's spinlock.        *)
SnapshotEntry(p) ==
    /\ pc[p] = "snap"
    /\ loc[p].todo # {}
    /\ SnapshotCanRead(SnapshotNext(p))
    /\ loc' = [ loc EXCEPT ![p].todo = @ \ {SnapshotNext(p)} ]
    /\ UNCHANGED << confVars, now, pc, lock, storeVars, hist >>

(* pg_stat_monitor_internal, line 1318. *)
SnapshotExit(p) ==
    /\ pc[p] = "snap"
    /\ loc[p].todo = {}
    /\ lock' = LWLockRelease(p)
    /\ loc' = [ loc EXCEPT ![p] = IdleLoc ]
    /\ Goto(p, "idle")
    /\ UNCHANGED << confVars, now, storeVars, hist >>

(* pg_stat_monitor_reset, lines 1049-1058: entry_dealloc(-1), no lock      *)
(* taken. entry_dealloc, lines 1437-1444: the entry count of the bucket    *)
(* is zeroed and the scan collects the victims.                            *)
pg_stat_monitor_reset(p) ==
    /\ mode = "conc"
    /\ MayStart(p)
    /\ bucket_entry' = DeallocBucketEntry(bucket_entry, -1)
    /\ loc' = [ loc EXCEPT ![p] = [ IdleLoc EXCEPT !.op = "reset",
                                      !.todo = DOMAIN DeallocVictims(pgss_hash, -1) ] ]
    /\ Goto(p, "reset")
    /\ hist' = [ hist EXCEPT !.ncalls = @ + 1 ]
    /\ UNCHANGED << confVars, now, lock, current_wbucket, prev_bucket_usec,
                    bucket_overflow, pgss_hash, pgss_agghash, pgss_object_hash,
                    resp_calls, query_fifo, pgss_qbuf >>

(* entry_dealloc, lines 1446-1459: the collected victims are removed by    *)
(* key, then the rollup table is scanned and emptied the same way.         *)
ResetRemove(p) ==
    /\ pc[p] = "reset"
    /\ pgss_hash' = [ k \in DOMAIN pgss_hash \ loc[p].todo |-> pgss_hash[k] ]
    /\ pgss_agghash' = DeallocAgg(pgss_agghash, -1)
    /\ loc' = [ loc EXCEPT ![p] = IdleLoc ]
    /\ Goto(p, "idle")
    /\ UNCHANGED << confVars, now, lock, current_wbucket, prev_bucket_usec,
                    bucket_entry, bucket_overflow, pgss_object_hash, resp_calls,
                    query_fifo, pgss_qbuf, hist >>

(***************************************************************************)
(* The library not loaded via shared_preload_libraries: pgss and the hash  *)
(* tables are NULL (lines 52-63), pgss_shmem_startup has not run.          *)
(***************************************************************************)
IsHashInitialize == mode # "down"

(* pgss_store raising an error where the code returns. *)
StoreNotInitializedRaises(p) ==
    /\ pc[p] = "obj"
    /\ ~IsHashInitialize
    /\ Goto(p, "error")
    /\ UNCHANGED << confVars, now, loc, lock, storeVars, hist >>

(* pgss_store, lines 842-844: the safety check returns at once. *)
StoreNotInitialized(p) ==
    /\ pc[p] = "obj"
    /\ ~IsHashInitialize
    /\ loc' = [ loc EXCEPT ![p] = IdleLoc ]
    /\ Goto(p, "idle")
    /\ UNCHANGED << confVars, now, lock, storeVars, hist >>

(* pgss_post_parse_analyze, lines 387-389: the same check, the same return. *)
PostParseNotInitialized(p) ==
    /\ pc[p] = "ppa"
    /\ ~IsHashInitialize
    /\ loc' = [ loc EXCEPT ![p] = IdleLoc ]
    /\ Goto(p, "idle")
    /\ UNCHANGED << confVars, now, lock, storeVars, hist >>

(* pg_stat_monitor_internal, lines 1186-1190: ereport(ERROR). *)
SnapshotNotInitialized(p) ==
    /\ MayStart(p)
    /\ ~IsHashInitialize
    /\ loc' = [ loc EXCEPT ![p] = [ IdleLoc EXCEPT !.op = "snapshot" ] ]
    /\ Goto(p, "error")
    /\ hist' = [ hist EXCEPT !.ncalls = @ + 1 ]
    /\ UNCHANGED << confVars, now, lock, storeVars >>

(* pg_stat_monitor_reset, lines 1052-1055: ereport(ERROR) before           *)
(* entry_dealloc is reached.                                               *)
ResetNotInitialized(p) ==
    /\ MayStart(p)
    /\ ~IsHashInitialize
    /\ loc' = [ loc EXCEPT ![p] = [ IdleLoc EXCEPT !.op = "reset" ] ]
    /\ Goto(p, "error")
    /\ hist' = [ hist EXCEPT !.ncalls = @ + 1 ]
    /\ UNCHANGED << confVars, now, lock, storeVars >>

(* The error ends the statement: the backend is back at its main loop. *)
ErrorReturn(p) ==
    /\ pc[p] = "error"
    /\ loc' = [ loc EXCEPT ![p] = IdleLoc ]
    /\ Goto(p, "idle")
    /\ UNCHANGED << confVars, now, lock, storeVars, hist >>

(* The wall clock advances by one bucket window. *)
Tick ==
    /\ mode \in {"conc", "rec", "sticky"}
    /\ now < MaxWindows * (PGSM_BUCKET_TIME + 1)
    /\ now' = now + PGSM_BUCKET_TIME + 1
    /\ UNCHANGED << confVars, pc, loc, lock, storeVars, hist >>

(***************************************************************************)
(* The text ring on its own: store_query on the current bucket, and the    *)
(* reset of the bucket's ring by a rotation.  The history keeps, per       *)
(* fingerprint, the text of its first store (as store_query truncates it)  *)
(* and whether a store found the ring full or a record did not fit into    *)
(* the bytes left before the end of the ring.                              *)
(***************************************************************************)
Truncated(text) ==
    SubSeq(text, 1, IF Len(text) > PGSM_QUERY_MAX_LEN THEN PGSM_QUERY_MAX_LEN ELSE Len(text))

RingStore ==
    /\ mode = "ring"
    /\ hist.ncalls < CallLimit
    /\ \E q \in RingQueryIds, text \in RingTexts :
        LET b    == current_wbucket
            d    == StoreDecision(query_fifo[b], pgss_qbuf[b], q, Len(text))
            r    == store_query(query_fifo[b], pgss_qbuf[b], q, text, Len(text))
            over == \/ d = "full"
                    \/ /\ d = "write"
                       /\ query_fifo[b].head + HeaderSize + Len(Truncated(text))
                            > query_buf_size_bucket
        IN  /\ d # "hang"
            /\ query_fifo' = [ query_fifo EXCEPT ![b] = r.fifo ]
            /\ pgss_qbuf' = [ pgss_qbuf EXCEPT ![b] = r.buf ]
            /\ hist' = [ hist EXCEPT !.ncalls = @ + 1,
                                      !.first[q] = IF @ = << >> THEN Truncated(text) ELSE @,
                                      !.exceeded = @ \/ over ]
    /\ UNCHANGED << confVars, now, pc, loc, lock, current_wbucket, prev_bucket_usec,
                    bucket_entry, bucket_overflow, pgss_hash, pgss_agghash,
                    pgss_object_hash, resp_calls >>

(* get_next_wbucket, lines 1407-1409, for the bucket of the harness. *)
RingReset ==
    /\ mode = "ring"
    /\ hist.ncalls > 0
    /\ query_fifo' = [ query_fifo EXCEPT ![current_wbucket] = [ head |-> 0, tail |-> 0 ] ]
    /\ hist' = [ hist EXCEPT !.first = [q \in RingQueryIds |-> << >>],
                              !.exceeded = FALSE ]
    /\ UNCHANGED << confVars, now, pc, loc, lock, current_wbucket, prev_bucket_usec,
                    bucket_entry, bucket_overflow, pgss_hash, pgss_agghash,
                    pgss_object_hash, resp_calls, pgss_qbuf >>

(***************************************************************************)
(* Fingerprinting and normalization.  A statement is its source text (a    *)
(* sequence of bytes) and its parsed expression list with the parser's     *)
(* locations; each backend fingerprints and normalizes its own statement.  *)
(***************************************************************************)
T_Var == 1
T_Const == 2
T_Param == 3
T_OpExpr == 4
PARAM_EXTERN == 0
INT4OID == 23
JUMBLE_SIZE == 4
HashModulus == 65521
T_Unrecognized == 5
RTE_RELATION == 0
RTE_JOIN == 2
RTE_Unrecognized == 8
CMD_SELECT == 1

MaxGap == 2
MaxPad == 1
MaxRtes == 2
MaxTargets == 2

scanner_isspace(ch) == ch \in {32, 9, 10, 13, 12}

Spaces(n) == [i \in 1 .. n |-> 32]

(* hash_any_extended over the jumble buffer. *)
RECURSIVE HashFrom(_, _, _)
HashFrom(s, i, h) ==
    IF i > Len(s) THEN h
    ELSE HashFrom(s, i + 1, (h * 31 + s[i] + 7) % HashModulus)

hash_any_extended(s) == HashFrom(s, 1, Len(s))

(* AppendJumble, lines 1513-1543, for one item: a full buffer is replaced   *)
(* by its hash before the item is appended.                                *)
AppendJumble(jumble, item) ==
    IF Len(jumble) >= JUMBLE_SIZE
    THEN << hash_any_extended(jumble), item >>
    ELSE Append(jumble, item)

RECURSIVE AppendJumbleAll(_, _, _)
AppendJumbleAll(jumble, items, i) ==
    IF i > Len(items) THEN jumble
    ELSE AppendJumbleAll(AppendJumble(jumble, items[i]), items, i + 1)

(* A Const jumbled with its value as well. *)
JumbleConstWithValue(node) == << node.a, node.b >>

(* JumbleExpr, lines 1684-1693: what is appended for a Const after its tag. *)
JumbleConst(node) == << node.a >>

(* RecordConstLocation, lines 2147-2167. *)
RecordConstLocation(clocations, location) ==
    IF location >= 0
    THEN Append(clocations, [ location |-> location, length |-> -1 ])
    ELSE clocations

(* JumbleExpr, lines 1657-1710, on one node: the tag, then the fields.      *)
(* Var: varno (a), varattno (b); Const: consttype (a), value (b);          *)
(* Param: paramkind (a), paramid (b); OpExpr: opno (a).  A node the switch *)
(* does not know (default, lines 2135-2139) leaves its tag only: the       *)
(* message is logged at INFO and the traversal goes on.                    *)
JumbleExpr(js, node) ==
    LET tagged == AppendJumble(js.jumble, node.type)
    IN  CASE node.type = T_Const ->
               [ js EXCEPT
                   !.jumble = AppendJumbleAll(tagged, JumbleConst(node), 1),
                   !.clocations = RecordConstLocation(@, node.location) ]
          [] node.type = T_Param ->
               [ js EXCEPT
                   !.jumble = AppendJumbleAll(tagged, << node.a, node.b, INT4OID >>, 1),
                   !.highest_extern_param_id =
                       IF node.a = PARAM_EXTERN /\ node.b > @ THEN node.b ELSE @ ]
          [] node.type = T_Var ->
               [ js EXCEPT
                   !.jumble = AppendJumbleAll(tagged, << node.a, node.b, 0 >>, 1) ]
          [] node.type = T_OpExpr ->
               [ js EXCEPT !.jumble = AppendJumbleAll(tagged, << node.a >>, 1) ]
          [] OTHER ->
               [ js EXCEPT !.jumble = tagged ]

(* JumbleExpr on the expression list (T_List, line 2050). *)
RECURSIVE JumbleList(_, _, _)
JumbleList(js, tree, i) ==
    IF i > Len(tree) THEN js
    ELSE JumbleList(JumbleExpr(js, tree[i]), tree, i + 1)

(* get_query_id, lines 2812-2828. *)
get_query_id(tree) ==
    LET js == JumbleList([ jumble |-> << >>, clocations |-> << >>,
                               highest_extern_param_id |-> 0 ], tree, 1)
    IN  [ queryid |-> hash_any_extended(js.jumble),
          clocations |-> js.clocations,
          highest_extern_param_id |-> js.highest_extern_param_id ]

(* JumbleRangeTable, lines 1593-1640: the kind of each entry, then what    *)
(* its case appends; the default case raises elog(ERROR), which leaves the *)
(* traversal at once.                                                      *)
RECURSIVE JumbleRangeTable(_, _, _)
JumbleRangeTable(js, rtable, i) ==
    IF i > Len(rtable) THEN [ js |-> js, error |-> FALSE ]
    ELSE LET rte    == rtable[i]
             tagged == AppendJumble(js.jumble, rte.rtekind)
         IN  CASE rte.rtekind = RTE_RELATION ->
                    JumbleRangeTable([ js EXCEPT !.jumble = AppendJumble(tagged, rte.relid) ],
                                     rtable, i + 1)
               [] rte.rtekind = RTE_JOIN ->
                    JumbleRangeTable([ js EXCEPT !.jumble = AppendJumble(tagged, rte.jointype) ],
                                     rtable, i + 1)
               [] OTHER ->
                    [ js |-> [ js EXCEPT !.jumble = tagged ], error |-> TRUE ]

(* JumbleQuery, lines 1563-1587: the command type, the range table, the    *)
(* target list.                                                            *)
JumbleQuery(query) ==
    LET js0 == [ jumble |-> << query.commandType >>, clocations |-> << >>,
                 highest_extern_param_id |-> 0 ]
        r   == JumbleRangeTable(js0, query.rtable, 1)
    IN  IF r.error THEN r
        ELSE [ js |-> JumbleList(r.js, query.targetList, 1), error |-> FALSE ]

(* pgss_store, lines 852-876: the part of the source string that is the    *)
(* statement, without leading and trailing whitespace.                     *)
RECURSIVE TrimLeading(_, _, _)
TrimLeading(src, query_location, query_len) ==
    IF query_len > 0 /\ scanner_isspace(src[query_location + 1])
    THEN TrimLeading(src, query_location + 1, query_len - 1)
    ELSE [ query_location |-> query_location, query_len |-> query_len ]

RECURSIVE TrimTrailing(_, _, _)
TrimTrailing(src, query_location, query_len) ==
    IF query_len > 0 /\ scanner_isspace(src[query_location + query_len])
    THEN TrimTrailing(src, query_location, query_len - 1)
    ELSE [ query_location |-> query_location, query_len |-> query_len ]

StatementText(src, stmt_location, stmt_len) ==
    LET at   == IF stmt_location >= 0 THEN stmt_location ELSE 0
        len  == IF stmt_location >= 0 /\ stmt_len > 0 THEN stmt_len
                ELSE Len(src) - at
        lead == TrimLeading(src, at, len)
    IN  TrimTrailing(src, lead.query_location, lead.query_len)

(* core_yylex on the string q from byte offset pos: the next token's       *)
(* start (yylloc) and end; tok = 0 at the end of the string.  Tokens are   *)
(* '-', '=', ';' and runs of other non-blank bytes.                        *)
LexSingles == {45, 61, 59}

RECURSIVE SkipSpace(_, _)
SkipSpace(q, pos) ==
    IF pos < Len(q) /\ scanner_isspace(q[pos + 1]) THEN SkipSpace(q, pos + 1) ELSE pos

RECURSIVE WordEnd(_, _)
WordEnd(q, pos) ==
    IF pos < Len(q) /\ ~scanner_isspace(q[pos + 1]) /\ q[pos + 1] \notin LexSingles
    THEN WordEnd(q, pos + 1)
    ELSE pos

core_yylex(q, pos) ==
    LET at == SkipSpace(q, pos)
    IN  IF at >= Len(q) THEN [ tok |-> 0, yylloc |-> at, end |-> at ]
        ELSE IF q[at + 1] \in LexSingles
             THEN [ tok |-> q[at + 1], yylloc |-> at, end |-> at + 1 ]
        ELSE [ tok |-> 1, yylloc |-> at, end |-> WordEnd(q, at) ]

(* The inner loop of fill_in_constant_lengths, lines 2341-2384. *)
RECURSIVE LexUntil(_, _, _)
LexUntil(q, pos, at) ==
    LET t == core_yylex(q, pos)
    IN  IF t.tok = 0 \/ t.yylloc >= at THEN t ELSE LexUntil(q, t.end, at)

(* qsort by comp_location, lines 2311-2313 and 2399-2411. *)
RECURSIVE SortLocations(_)
SortLocations(locs) ==
    IF Len(locs) <= 1 THEN locs
    ELSE LET least == CHOOSE i \in 1 .. Len(locs) :
                         \A j \in 1 .. Len(locs) :
                            \/ locs[i].location < locs[j].location
                            \/ locs[i].location = locs[j].location /\ i <= j
             rest  == [ j \in 1 .. (Len(locs) - 1) |->
                          IF j < least THEN locs[j] ELSE locs[j + 1] ]
         IN  << locs[least] >> \o SortLocations(rest)

(* The loop of fill_in_constant_lengths taking the rest of the string for  *)
(* a constant it reaches the end of the input on, and going on.            *)
RECURSIVE FillFromToTheEnd(_, _, _, _, _, _)
FillFromToTheEnd(locs, i, pos, last_loc, q, query_loc) ==
    IF i > Len(locs) THEN locs
    ELSE LET at == locs[i].location - query_loc
         IN  IF at <= last_loc THEN FillFromToTheEnd(locs, i + 1, pos, last_loc, q, query_loc)
             ELSE LET t  == LexUntil(q, pos, at)
                      t2 == IF t.tok # 0 /\ at < Len(q) /\ q[at + 1] = 45
                            THEN core_yylex(q, t.end) ELSE t
                  IN  FillFromToTheEnd([ locs EXCEPT ![i].length =
                                           IF t2.tok = 0 /\ Len(q) > at THEN Len(q) - at
                                           ELSE IF t2.tok = 0 THEN 0
                                           ELSE t2.end - at ],
                                       i + 1, t2.end, at, q, query_loc)

(* fill_in_constant_lengths, lines 2295-2394: the loop over the sorted      *)
(* locations; pos is the scanner's place, last_loc the last constant.      *)
RECURSIVE FillFrom(_, _, _, _, _, _)
FillFrom(locs, i, pos, last_loc, q, query_loc) ==
    IF i > Len(locs) THEN locs
    ELSE LET at == locs[i].location - query_loc
         IN  IF at <= last_loc THEN FillFrom(locs, i + 1, pos, last_loc, q, query_loc)
             ELSE LET t  == LexUntil(q, pos, at)
                      t2 == IF t.tok # 0 /\ at < Len(q) /\ q[at + 1] = 45
                            THEN core_yylex(q, t.end) ELSE t
                  IN  IF t2.tok = 0 THEN locs
                      ELSE FillFrom([ locs EXCEPT ![i].length = t2.end - at ],
                                    i + 1, t2.end, at, q, query_loc)

fill_in_constant_lengths(clocations, q, query_loc) ==
    FillFrom(SortLocations(clocations), 1, 0, -1, q, query_loc)

(* sprintf("%d") of a positive number. *)
RECURSIVE Digits(_)
Digits(n) == IF n < 10 THEN << 48 + n >> ELSE Digits(n \div 10) \o << 48 + (n % 10) >>

(* memcpy(dst, q + from, len). *)
Bytes(q, from, len) == SubSeq(q, from + 1, from + len)

(* generate_normalized_query, lines 2220-2250: the loop; s holds norm_query, *)
(* quer_loc, last_off and last_tok_len.                                     *)
RECURSIVE NormalizeFrom(_, _, _, _, _, _)
NormalizeFrom(locs, i, highest, q, query_loc, s) ==
    IF i > Len(locs) THEN s
    ELSE LET off     == locs[i].location - query_loc
             tok_len == locs[i].length
         IN  IF tok_len < 0 THEN NormalizeFrom(locs, i + 1, highest, q, query_loc, s)
             ELSE NormalizeFrom(locs, i + 1, highest, q, query_loc,
                    [ norm_query |-> s.norm_query
                                       \o Bytes(q, s.quer_loc, off - s.last_off - s.last_tok_len)
                                       \o << 36 >> \o Digits(i + highest),
                      quer_loc |-> off + tok_len,
                      last_off |-> off,
                      last_tok_len |-> tok_len ])

(* generate_normalized_query, lines 2188-2266; q is the string from the     *)
(* statement's first byte to the end of the source.                        *)
generate_normalized_query(clocations, highest, q, query_loc, query_len) ==
    LET locs == fill_in_constant_lengths(clocations, q, query_loc)
        s    == NormalizeFrom(locs, 1, highest, q, query_loc,
                              [ norm_query |-> << >>, quer_loc |-> 0,
                                last_off |-> 0, last_tok_len |-> 0 ])
    IN  s.norm_query \o Bytes(q, s.quer_loc, query_len - s.quer_loc)

(***************************************************************************)
(* The statements: a shape (its tokens), the literal at each constant, the *)
(* blanks before, between and after the tokens, and the statement's place   *)
(* in the source string (alone, after "b;", or before ";b").               *)
(***************************************************************************)
Shapes ==
    { << "kw", "kw" >>, << "kw", "const" >>, << "kw", "const", "dup" >>,
      << "kw", "const", "eq", "const" >>, << "kw", "param", "eq", "const" >>,
      << "kw", "const", "dup", "eq", "const" >>,
      << "kw", "const", "minus" >>, << "kw", "const", "minus", "lost" >>,
      << "kw", "const", "lost" >> }

(* The shapes that end in a constant the scanner cannot resolve: "minus"   *)
(* is a constant recorded at a '-' that no token follows, "lost" one       *)
(* recorded past the last token.                                           *)
EndOfInput(shape) == \E i \in 1 .. Len(shape) : shape[i] \in {"minus", "lost"}

(* "1", "22" and "-3", with their values. *)
Literals == { [ text |-> << 49 >>, value |-> 1 ], [ text |-> << 50, 50 >>, value |-> 22 ],
              [ text |-> << 45, 51 >>, value |-> -3 ] }

LiteralsOf(shape) ==
    { f \in [ 1 .. Len(shape) -> Literals ] :
        \A i \in 1 .. Len(shape) : shape[i] # "const" => f[i].value = 1 }

Places == { "alone", "second", "first" }

TokenText(kind, i, lit) ==
    CASE kind = "kw" -> << 96 + i >>
      [] kind = "const" -> lit.text
      [] kind = "eq" -> << 61 >>
      [] kind = "param" -> << 36, 49 >>
      [] kind = "minus" -> << 45 >>
      [] OTHER -> << >>

TokenNode(kind, i, lit, at, tree) ==
    CASE kind = "kw" -> [ type |-> T_Var, a |-> 1, b |-> i, location |-> at ]
      [] kind = "const" -> [ type |-> T_Const, a |-> INT4OID, b |-> lit.value, location |-> at ]
      [] kind = "eq" -> [ type |-> T_OpExpr, a |-> 96, b |-> 0, location |-> at ]
      [] kind = "param" -> [ type |-> T_Param, a |-> PARAM_EXTERN, b |-> 1, location |-> at ]
      [] kind \in {"minus", "lost"} ->
           [ type |-> T_Const, a |-> INT4OID, b |-> 0, location |-> at ]
      [] OTHER -> tree[Len(tree)]

RECURSIVE Render(_, _, _, _, _, _)
Render(shape, lits, gap, i, text, tree) ==
    IF i > Len(shape) THEN [ text |-> text, tree |-> tree ]
    ELSE LET sep == IF i = 1 \/ shape[i] = "dup" THEN << >> ELSE Spaces(gap)
         IN  Render(shape, lits, gap, i + 1,
                    text \o sep \o TokenText(shape[i], i, lits[i]),
                    Append(tree, TokenNode(shape[i], i, lits[i],
                                           Len(text) + Len(sep), tree)))

Statement(shape, lits, lead, gap, trail, place) ==
    LET prefix == IF place = "second" THEN << 98, 59 >> ELSE << >>
        r      == Render(shape, lits, gap, 1, prefix \o Spaces(lead), << >>)
    IN  [ src |-> r.text \o Spaces(trail)
                    \o (IF place = "first" THEN << 59, 98 >> ELSE << >>),
          tree |-> r.tree,
          stmt_location |-> Len(prefix),
          stmt_len |-> IF place = "first" THEN Len(r.text) + trail ELSE 0,
          gap |-> gap,
          queryid |-> 0, clocations |-> << >>, highest_extern_param_id |-> 0,
          query_len |-> 0, text |-> << >> ]

(* pgss_post_parse_analyze, lines 376-447: fingerprint the statement. *)
PostParseAnalyze(p) ==
    /\ mode = "norm"
    /\ pc[p] = "parse"
    /\ LET j == get_query_id(loc[p].tree)
       IN  /\ loc' = [ loc EXCEPT
                         ![p].queryid = IF j.queryid = 0 THEN 1 ELSE j.queryid,
                         ![p].clocations = j.clocations,
                         ![p].highest_extern_param_id = j.highest_extern_param_id ]
           /\ Goto(p, IF Len(j.clocations) > 0 THEN "store" ELSE "exec")
    /\ UNCHANGED << confVars, now, lock, storeVars, hist >>

(* pgss_store, lines 852-876 and 946-949, a statement of no constants (the *)
(* call comes from the executor, jstate = NULL): its text is the trimmed   *)
(* statement.                                                              *)
StoreRawText(p) ==
    /\ mode = "norm"
    /\ pc[p] = "exec"
    /\ LET t == StatementText(loc[p].src, loc[p].stmt_location, loc[p].stmt_len)
       IN  loc' = [ loc EXCEPT ![p].query_len = t.query_len,
                               ![p].text = Bytes(loc[p].src, t.query_location, t.query_len) ]
    /\ Goto(p, "done")
    /\ UNCHANGED << confVars, now, lock, storeVars, hist >>

(* pgss_store, lines 852-876, 926-933 and 946-949, with jstate: its text is *)
(* the normalized query.                                                   *)
StoreNormalizedText(p) ==
    /\ mode = "norm"
    /\ pc[p] = "store"
    /\ LET t == StatementText(loc[p].src, loc[p].stmt_location, loc[p].stmt_len)
           n == generate_normalized_query(
                    loc[p].clocations, loc[p].highest_extern_param_id,
                    Bytes(loc[p].src, t.query_location, Len(loc[p].src) - t.query_location),
                    t.query_location, t.query_len)
       IN  loc' = [ loc EXCEPT ![p].query_len = Len(n), ![p].text = n ]
    /\ Goto(p, "done")
    /\ UNCHANGED << confVars, now, lock, storeVars, hist >>

(***************************************************************************)
(* Initial state: pgss_shmem_startup with ResetSharedState.                *)
(***************************************************************************)
InitTables ==
    /\ now = 0
    /\ lock = [x |-> NoProc, s |-> {}]
    /\ prev_bucket_usec = 0
    /\ bucket_entry = [b \in Buckets |-> 0]
    /\ bucket_overflow = [b \in Buckets |-> 0]
    /\ pgss_hash = << >>
    /\ pgss_agghash = << >>
    /\ pgss_object_hash = {}
    /\ resp_calls = [b \in Buckets |-> ZeroResp]
    /\ query_fifo = [b \in Buckets |-> [head |-> 0, tail |-> 0]]
    /\ pgss_qbuf = [b \in Buckets |-> ZeroBuf]
    /\ hist = [ ncalls |-> 0,
                dropped |-> [q \in QueryIds |-> FALSE],
                owner |-> [q \in QueryIds |-> NoProc],
                done |-> [q \in QueryIds |-> 0],
                seq |-> [k \in Kinds |-> << >>],
                rot |-> 0, last |-> 0, born |-> << >>, aggborn |-> << >>,
                first |-> [q \in RingQueryIds |-> << >>], exceeded |-> FALSE,
                registered |-> {}, plain |-> {} ]

InitShared ==
    /\ pc = [p \in Procs |-> "idle"]
    /\ loc = [p \in Procs |-> IdleLoc]
    /\ InitTables

InitStore ==
    /\ current_wbucket = 0
    /\ InitShared

StoreStep(p) ==
    \/ AddObjectEntry(p)
    \/ StoreObject(p)
    \/ StoreObjectRemove(p)
    \/ GetNextWBucket(p)
    \/ RotateLock(p)
    \/ RotateEvict(p)
    \/ RotateStamp(p)
    \/ StoreSetBucket(p)
    \/ StoreFindLock(p)
    \/ StoreFind(p)
    \/ StoreNormalize(p)
    \/ StoreExclusiveLock(p)
    \/ EntryAllocCheck(p)
    \/ EntryAllocEnter(p)
    \/ StoreQueryCheck(p)
    \/ StoreQueryWrite(p)
    \/ StoreSpinLock(p)
    \/ StoreUpdate(p)
    \/ StoreExit(p)

(* Concurrent backends, every operation. *)
Init ==
    /\ mode = "conc"
    /\ PGSM_MAX = 4
    /\ InitStore

Next ==
    \/ \E p \in Procs : Record(p)
    \/ \E p \in Procs : RegisterText(p)
    \/ \E p \in Procs : StoreStep(p)
    \/ \E p \in Procs : SnapshotLock(p)
    \/ \E p \in Procs : SnapshotEntry(p)
    \/ \E p \in Procs : SnapshotExit(p)
    \/ \E p \in Procs : pg_stat_monitor_reset(p)
    \/ \E p \in Procs : ResetRemove(p)
    \/ Tick

Spec == Init /\ [][Next]_vars

(* pgss_store as a record call takes it (jstate = NULL, no object entry). *)
RecordStep(p) ==
    \/ StoreObject(p)
    \/ GetNextWBucket(p)
    \/ StoreSetBucket(p)
    \/ StoreFindLock(p)
    \/ StoreFind(p)
    \/ StoreExclusiveLock(p)
    \/ EntryAllocCheck(p)
    \/ EntryAllocEnter(p)
    \/ StoreQueryCheck(p)
    \/ StoreQueryWrite(p)
    \/ StoreSpinLock(p)
    \/ StoreUpdate(p)
    \/ StoreExit(p)

RotateStep(p) ==
    \/ RotateLock(p)
    \/ RotateEvict(p)
    \/ RotateStamp(p)

(* Concurrent backends making record calls only, on a table of two entries *)
(* (one per bucket).                                                        *)
InitRec ==
    /\ mode = "rec"
    /\ PGSM_MAX = 2
    /\ InitStore

NextRec ==
    \/ \E p \in Procs : Record(p)
    \/ \E p \in Procs : RecordStep(p)
    \/ \E p \in Procs : RotateStep(p)
    \/ Tick

SpecRec == InitRec /\ [][NextRec]_vars

(* One backend making record calls within one bucket window, measurements *)
(* of both kinds and several durations, on a table of two entries.         *)
InitStat ==
    /\ mode = "stat"
    /\ PGSM_MAX = 2
    /\ InitStore

NextStat ==
    \/ \E p \in Procs : Record(p)
    \/ \E p \in Procs : RecordStep(p)

SpecStat == InitStat /\ [][NextStat]_vars

(* The text ring of either bucket, driven by store_query alone. *)
InitRing ==
    /\ mode = "ring"
    /\ PGSM_MAX = 2
    /\ current_wbucket \in Buckets
    /\ InitShared

NextRing ==
    \/ RingStore
    \/ RingReset

SpecRing == InitRing /\ [][NextRing]_vars

(* Pairs of statements of one shape: the first without outer blanks and    *)
(* alone in its source string, the second with any blanks and place; the   *)
(* literals and the blanks between the tokens are free in both.            *)
InitNorm ==
    /\ mode = "norm"
    /\ PGSM_MAX = 2
    /\ current_wbucket = 0
    /\ InitTables
    /\ pc = [p \in Procs |-> "parse"]
    /\ \E shape \in Shapes :
        \E l1 \in LiteralsOf(shape), l2 \in LiteralsOf(shape) :
        \E g1 \in 1 .. MaxGap, g2 \in 1 .. MaxGap :
        \E lead \in 0 .. MaxPad, trail \in 0 .. MaxPad, place \in Places :
            /\ EndOfInput(shape) => place # "first"
            /\ loc = [p \in Procs |->
                     IF p = "p1" THEN Statement(shape, l1, 0, g1, 0, "alone")
                     ELSE Statement(shape, l2, lead, g2, trail, place)]

NextNorm ==
    \/ \E p \in Procs : PostParseAnalyze(p)
    \/ \E p \in Procs : StoreRawText(p)
    \/ \E p \in Procs : StoreNormalizedText(p)

SpecNorm == InitNorm /\ [][NextNorm]_vars

(* Every operation called while the shared state is not set up. *)
InitDown ==
    /\ mode = "down"
    /\ PGSM_MAX = 4
    /\ InitStore

NextDown ==
    \/ \E p \in Procs : Record(p)
    \/ \E p \in Procs : RegisterText(p)
    \/ \E p \in Procs : StoreNotInitialized(p)
    \/ \E p \in Procs : PostParseNotInitialized(p)
    \/ \E p \in Procs : SnapshotNotInitialized(p)
    \/ \E p \in Procs : ResetNotInitialized(p)
    \/ \E p \in Procs : ErrorReturn(p)

SpecDown == InitDown /\ [][NextDown]_vars

(* The fingerprinting harness: queries with a range table and a target     *)
(* list, among them entries and nodes of kinds the traversal does not know.*)
RangeTblEntries ==
    { [ rtekind |-> RTE_RELATION, relid |-> 1, jointype |-> 0 ],
      [ rtekind |-> RTE_JOIN, relid |-> 0, jointype |-> 1 ],
      [ rtekind |-> RTE_Unrecognized, relid |-> 0, jointype |-> 0 ] }

TargetNodes ==
    { [ type |-> T_Var, a |-> 1, b |-> 1, location |-> 0 ],
      [ type |-> T_Const, a |-> INT4OID, b |-> 1, location |-> 0 ],
      [ type |-> T_Unrecognized, a |-> 0, b |-> 0, location |-> -1 ] }

RangeTables == UNION { [ 1 .. n -> RangeTblEntries ] : n \in 0 .. MaxRtes }
TargetLists == UNION { [ 1 .. n -> TargetNodes ] : n \in 1 .. MaxTargets }

Query(rtable, targetList) ==
    [ commandType |-> CMD_SELECT, rtable |-> rtable, targetList |-> targetList,
      queryid |-> 0 ]

(* pgss_post_parse_analyze, lines 427-447: get_query_id on the query; an   *)
(* elog(ERROR) inside it ends the statement.                               *)
PostParseJumble(p) ==
    /\ mode = "jumble"
    /\ pc[p] = "parse"
    /\ LET r == JumbleQuery(loc[p])
           h == hash_any_extended(r.js.jumble)
       IN  IF r.error
           THEN /\ Goto(p, "error") /\ loc' = loc
           ELSE /\ Goto(p, "done")
                /\ loc' = [ loc EXCEPT ![p].queryid = IF h = 0 THEN 1 ELSE h ]
    /\ UNCHANGED << confVars, now, lock, storeVars, hist >>

InitJumble ==
    /\ mode = "jumble"
    /\ PGSM_MAX = 2
    /\ current_wbucket = 0
    /\ InitTables
    /\ pc = [p \in Procs |-> "parse"]
    /\ \E rt \in RangeTables, t1 \in TargetLists, t2 \in TargetLists :
          loc = [p \in Procs |-> IF p = "p1" THEN Query(rt, t1) ELSE Query(<< >>, t2)]

NextJumble == \E p \in Procs : PostParseJumble(p)

SpecJumble == InitJumble /\ [][NextJumble]_vars

(***************************************************************************)
(* AppendJumble, lines 1512-1543, as the loop it is: one backend appends   *)
(* items of any size to its jumble buffer.  loc holds jstate (jumble), the *)
(* loop's locals (item, size) and every byte handed over so far (stream).  *)
(***************************************************************************)
MaxItemSize == 9
MaxAppends == 3

(* The items: runs of one byte value. *)
JumbleItems ==
    { [ i \in 1 .. n |-> v ] : n \in 1 .. MaxItemSize, v \in {1, 2} }

(* The loop body with the test for a full buffer left out. *)
AppendJumblePartNoFold(jumble, item) ==
    LET part_size == Min({ Len(item), JUMBLE_SIZE - Len(jumble) })
    IN  [ jumble |-> jumble \o SubSeq(item, 1, part_size),
          item |-> SubSeq(item, part_size + 1, Len(item)) ]

(* One turn of the while loop, lines 1523-1541: fold a full buffer into    *)
(* its hash, then copy as much of the item as fits.                        *)
AppendJumblePart(jumble, item) ==
    LET folded    == IF Len(jumble) >= JUMBLE_SIZE
                     THEN << hash_any_extended(jumble) >> ELSE jumble
        part_size == Min({ Len(item), JUMBLE_SIZE - Len(folded) })
    IN  [ jumble |-> folded \o SubSeq(item, 1, part_size),
          item |-> SubSeq(item, part_size + 1, Len(item)) ]

(* The call, lines 1513-1517. *)
AppendJumbleCall(p) ==
    /\ mode = "append"
    /\ p = "p1"
    /\ pc[p] = "idle"
    /\ hist.ncalls < MaxAppends
    /\ \E item \in JumbleItems :
          loc' = [ loc EXCEPT ![p].item = item, ![p].size = Len(item),
                              ![p].stream = @ \o item ]
    /\ hist' = [ hist EXCEPT !.ncalls = @ + 1 ]
    /\ Goto(p, "append")
    /\ UNCHANGED << confVars, now, lock, storeVars >>

(* while (size > 0), lines 1523-1541. *)
AppendJumbleLoop(p) ==
    /\ mode = "append"
    /\ pc[p] = "append"
    /\ loc[p].size > 0
    /\ LET r == AppendJumblePart(loc[p].jumble, loc[p].item)
       IN  loc' = [ loc EXCEPT ![p].jumble = r.jumble, ![p].item = r.item,
                               ![p].size = Len(r.item) ]
    /\ UNCHANGED << confVars, now, pc, lock, storeVars, hist >>

(* Line 1542: the loop is left and the length is stored. *)
AppendJumbleReturn(p) ==
    /\ mode = "append"
    /\ pc[p] = "append"
    /\ loc[p].size = 0
    /\ Goto(p, "idle")
    /\ UNCHANGED << confVars, now, loc, lock, storeVars, hist >>

InitAppend ==
    /\ mode = "append"
    /\ PGSM_MAX = 2
    /\ current_wbucket = 0
    /\ InitTables
    /\ pc = [p \in Procs |-> "idle"]
    /\ loc = [p \in Procs |-> [ jumble |-> << >>, item |-> << >>, size |-> 0,
                                stream |-> << >> ]]

NextAppend ==
    \/ \E p \in Procs : AppendJumbleCall(p)
    \/ \E p \in Procs : AppendJumbleLoop(p)
    \/ \E p \in Procs : AppendJumbleReturn(p)

SpecAppend == InitAppend /\ [][NextAppend]_vars

(***************************************************************************)
(* entry_reset, lines 1465-1506, called by _PG_fini (line 226).  The       *)
(* bucket table and the wait-event table are filled at startup (lines      *)
(* 308-340) and kept in loc of the unloading process, with the scans'      *)
(* places: todo is what hash_seq_search has still to return, dbentry the   *)
(* pointer the rollup loop left behind.                                    *)
(***************************************************************************)
MAX_BACKEND_PROCESES == 2
MaxUnloadEntries == 2

NullEntry == << >>

UnloadKeys == { Key(1, DbId, q, 0) : q \in 1 .. MaxUnloadEntries }
UnloadAggKeys == { AggKey(0, AGG_KEY_DATABASE, DbId, q) : q \in 1 .. MaxUnloadEntries }

(* hash_search(table, &dbentry->key, HASH_REMOVE), lines 1494 and 1500:    *)
(* dbentry is NULL once the rollup loop has ended, so the key is read      *)
(* through a null pointer.  The call may end the process, find no entry    *)
(* of that key, or remove whichever entry the bytes read happen to name.   *)
HashRemoveStale(table, own, stale) ==
    IF stale = NullEntry
    THEN { [ crash |-> TRUE, table |-> table ] }
           \cup { [ crash |-> FALSE, table |-> table ] }
           \cup { [ crash |-> FALSE, table |-> table \ {k} ] : k \in table }
    ELSE { [ crash |-> FALSE, table |-> table \ {stale} ] }

(* LWLockAcquire(pgss->lock, LW_EXCLUSIVE), lines 1477-1479. *)
EntryResetLock(p) ==
    /\ mode = "unload"
    /\ p = "p1"
    /\ pc[p] = "idle"
    /\ CanExclusive(p)
    /\ lock' = AcquireExclusive(p)
    /\ loc' = [ loc EXCEPT ![p].todo = DOMAIN pgss_hash ]
    /\ Goto(p, "er_hash")
    /\ UNCHANGED << confVars, now, storeVars, hist >>

(* The loop over pgss_hash, lines 1479-1483. *)
EntryResetHash(p) ==
    /\ mode = "unload"
    /\ pc[p] = "er_hash"
    /\ IF loc[p].todo = {}
       THEN /\ loc' = [ loc EXCEPT ![p].todo = DOMAIN pgss_agghash ]
            /\ Goto(p, "er_agg")
            /\ UNCHANGED pgss_hash
       ELSE \E entry \in loc[p].todo :
              /\ pgss_hash' = [ k \in DOMAIN pgss_hash \ {entry} |-> pgss_hash[k] ]
              /\ loc' = [ loc EXCEPT ![p].todo = @ \ {entry} ]
              /\ UNCHANGED pc
    /\ UNCHANGED << confVars, now, lock, current_wbucket, prev_bucket_usec,
                    bucket_entry, bucket_overflow, pgss_agghash, pgss_object_hash,
                    resp_calls, query_fifo, pgss_qbuf, hist >>

(* The loop over pgss_agghash, lines 1485-1489: dbentry is each entry in   *)
(* turn and NULL when the loop ends.                                       *)
EntryResetAgg(p) ==
    /\ mode = "unload"
    /\ pc[p] = "er_agg"
    /\ IF loc[p].todo = {}
       THEN /\ loc' = [ loc EXCEPT ![p].todo = loc[p].buckethash,
                                   ![p].dbentry = NullEntry ]
            /\ Goto(p, "er_bucket")
            /\ UNCHANGED pgss_agghash
       ELSE \E dbentry \in loc[p].todo :
              /\ pgss_agghash' = [ k \in DOMAIN pgss_agghash \ {dbentry} |-> pgss_agghash[k] ]
              /\ loc' = [ loc EXCEPT ![p].todo = @ \ {dbentry}, ![p].dbentry = dbentry ]
              /\ UNCHANGED pc
    /\ UNCHANGED << confVars, now, lock, current_wbucket, prev_bucket_usec,
                    bucket_entry, bucket_overflow, pgss_hash, pgss_object_hash,
                    resp_calls, query_fifo, pgss_qbuf, hist >>

(* The loop over pgss_buckethash, lines 1491-1495. *)
EntryResetBucket(p) ==
    /\ mode = "unload"
    /\ pc[p] = "er_bucket"
    /\ IF loc[p].todo = {}
       THEN /\ loc' = [ loc EXCEPT ![p].todo = loc[p].waiteventshash ]
            /\ Goto(p, "er_wait")
       ELSE \E objentry \in loc[p].todo :
            \E r \in HashRemoveStale(loc[p].buckethash, objentry, loc[p].dbentry) :
              IF r.crash
              THEN Goto(p, "crashed") /\ loc' = loc
              ELSE /\ loc' = [ loc EXCEPT ![p].buckethash = r.table,
                                          ![p].todo = (@ \ {objentry}) \cap r.table ]
                   /\ UNCHANGED pc
    /\ UNCHANGED << confVars, now, lock, storeVars, hist >>

(* The loop over pgss_waiteventshash, lines 1497-1501. *)
EntryResetWaitEvents(p) ==
    /\ mode = "unload"
    /\ pc[p] = "er_wait"
    /\ IF loc[p].todo = {}
       THEN /\ loc' = loc
            /\ Goto(p, "er_exit")
       ELSE \E weentry \in loc[p].todo :
            \E r \in HashRemoveStale(loc[p].waiteventshash, weentry, loc[p].dbentry) :
              IF r.crash
              THEN Goto(p, "crashed") /\ loc' = loc
              ELSE /\ loc' = [ loc EXCEPT ![p].waiteventshash = r.table,
                                          ![p].todo = (@ \ {weentry}) \cap r.table ]
                   /\ UNCHANGED pc
    /\ UNCHANGED << confVars, now, lock, storeVars, hist >>

(* Lines 1502-1505. *)
EntryResetExit(p) ==
    /\ mode = "unload"
    /\ pc[p] = "er_exit"
    /\ current_wbucket' = 0
    /\ lock' = LWLockRelease(p)
    /\ Goto(p, "done")
    /\ UNCHANGED << confVars, now, loc, prev_bucket_usec, bucket_entry, bucket_overflow,
                    pgss_hash, pgss_agghash, pgss_object_hash, resp_calls,
                    query_fifo, pgss_qbuf, hist >>

InitUnload ==
    /\ mode = "unload"
    /\ PGSM_MAX = 4
    /\ now = 0
    /\ lock = [x |-> NoProc, s |-> {}]
    /\ prev_bucket_usec = 0
    /\ bucket_overflow = [b \in Buckets |-> 0]
    /\ pgss_object_hash = {}
    /\ resp_calls = [b \in Buckets |-> ZeroResp]
    /\ query_fifo = [b \in Buckets |-> [head |-> 0, tail |-> 0]]
    /\ pgss_qbuf = [b \in Buckets |-> ZeroBuf]
    /\ hist = [ ncalls |-> 0,
                dropped |-> [q \in QueryIds |-> FALSE],
                owner |-> [q \in QueryIds |-> NoProc],
                done |-> [q \in QueryIds |-> 0],
                seq |-> [k \in Kinds |-> << >>],
                rot |-> 0, last |-> 0, born |-> << >>, aggborn |-> << >>,
                first |-> [q \in RingQueryIds |-> << >>], exceeded |-> FALSE,
                registered |-> {}, plain |-> {} ]
    /\ current_wbucket \in Buckets
    /\ pc = [p \in Procs |-> "idle"]
    /\ \E ks \in SUBSET UnloadKeys, as \in SUBSET UnloadAggKeys :
          /\ pgss_hash = [ k \in ks |-> [ counters |-> ZeroCounters, mutex |-> NoProc ] ]
          /\ pgss_agghash = [ k \in as |-> 1 ]
          /\ bucket_entry = [b \in Buckets |-> IF b = 0 THEN Cardinality(ks) ELSE 0]
    /\ loc = [p \in Procs |-> [ todo |-> {}, dbentry |-> NullEntry,
                                buckethash |-> Buckets,
                                waiteventshash |-> 0 .. (MAX_BACKEND_PROCESES - 1) ]]

NextUnload ==
    \/ \E p \in Procs : EntryResetLock(p)
    \/ \E p \in Procs : EntryResetHash(p)
    \/ \E p \in Procs : EntryResetAgg(p)
    \/ \E p \in Procs : EntryResetBucket(p)
    \/ \E p \in Procs : EntryResetWaitEvents(p)
    \/ \E p \in Procs : EntryResetExit(p)

SpecUnload == InitUnload /\ [][NextUnload]_vars

(* store_query, lines 2648-2654: the byte offsets of the ring its three    *)
(* memcpy calls write to, at the head as it is.                            *)
StoreWriteOffsets(fifo, query_len) ==
    LET len == IF query_len > PGSM_QUERY_MAX_LEN THEN PGSM_QUERY_MAX_LEN ELSE query_len
    IN  fifo.head .. (fifo.head + HeaderSize + len - 1)

(* locate_query, lines 2597-2616: the byte offsets of the ring its memcpy  *)
(* calls read from; withText is `query != NULL' (line 2608).  A length     *)
(* beyond the ring is cut to one ring size: the offsets are past the end   *)
(* all the same.                                                           *)
RECURSIVE LocateReadsFrom(_, _, _, _, _, _)
LocateReadsFrom(buf, head, tail, queryid, withText, fuel) ==
    IF head = tail \/ fuel = 0 THEN {}
    ELSE LET id     == Read64(buf, tail)
             len    == Read64(buf, tail + UINT64_SIZE)
             cut    == IF len > query_buf_size_bucket THEN query_buf_size_bucket ELSE len
             header == tail .. (tail + HeaderSize - 1)
             text   == IF withText
                       THEN (tail + HeaderSize) .. (tail + HeaderSize + cut - 1)
                       ELSE {}
         IN  IF len = 0 THEN header
             ELSE IF id = queryid THEN header \cup text
             ELSE header \cup text \cup
                  LocateReadsFrom(buf, head,
                                  (tail + HeaderSize + Read64Mod(buf, tail + UINT64_SIZE))
                                     % query_buf_size_bucket,
                                  queryid, withText, fuel - 1)

LocateReadOffsets(fifo, buf, queryid, withText) ==
    LocateReadsFrom(buf, fifo.head, fifo.tail, queryid, withText, query_buf_size_bucket)

(* One backend that registers texts and records measurements of both       *)
(* kinds, windows apart or not.                                            *)
InitSticky ==
    /\ mode = "sticky"
    /\ PGSM_MAX = 4
    /\ InitStore

NextSticky ==
    \/ \E p \in Procs : Record(p)
    \/ \E p \in Procs : RegisterText(p)
    \/ \E p \in Procs : StoreStep(p)
    \/ Tick

SpecSticky == InitSticky /\ [][NextSticky]_vars

(***************************************************************************)
(* Properties.                                                             *)
(***************************************************************************)
RECURSIVE SumOver(_, _)
SumOver(f, S) ==
    IF S = {} THEN 0
    ELSE LET x == CHOOSE x \in S : TRUE IN f[x] + SumOver(f, S \ {x})

EntryCalls(k) == SumOver(pgss_hash[k].counters.calls, Kinds)

TotalCalls(q) ==
    LET ks == { k \in DOMAIN pgss_hash : KeyQuery(k) = q }
    IN  SumOver([k \in ks |-> EntryCalls(k)], ks)

AllIdle == \A p \in Procs : pc[p] = "idle"

(* C1: concurrent record calls by different processes for different        *)
(* fingerprints, at most one rotation becoming due, capacity never         *)
(* exhausted: once all calls have returned, each fingerprint's call count  *)
(* summed over the buckets equals the number of record calls made for it.  *)
C1_NoLostUpdate ==
    ( /\ AllIdle
      /\ \A q \in QueryIds : ~hist.dropped[q]
      /\ \A q \in QueryIds : hist.owner[q] # "many"
      /\ now <= PGSM_BUCKET_TIME + 1 )
    => \A q \in QueryIds : TotalCalls(q) = hist.done[q]

(* C2: after N = PGSM_MAX_BUCKETS rotations no entry and no rollup entry   *)
(* that existed before the first of them is left (every entry present was  *)
(* created fewer than N rotations ago), and a rotation leaves in place,    *)
(* counters unchanged, every entry created after one of the last N - 1     *)
(* rotations in the bucket that rotation made current.                     *)
C2_RotationEvicts ==
    /\ [] ( /\ \A k \in DOMAIN pgss_hash :
                  hist.rot - hist.born[k][1] < PGSM_MAX_BUCKETS
            /\ \A a \in DOMAIN pgss_agghash :
                  hist.rot - hist.aggborn[a] < PGSM_MAX_BUCKETS )
    /\ [][ hist.rot' = hist.rot + 1 =>
             \A k \in DOMAIN pgss_hash :
                ( /\ hist.born[k][1] >= 1
                  /\ hist.born[k][2]
                  /\ hist.rot' - hist.born[k][1] < PGSM_MAX_BUCKETS )
                => ( /\ k \in DOMAIN pgss_hash'
                     /\ pgss_hash'[k].counters = pgss_hash[k].counters ) ]_vars

(* The entry of the statistics harness: queryid 1 in the current bucket. *)
StatKey == Key(UserId, DbId, 1, current_wbucket)

(* C3 as stated: record calls with one key within one bucket window leave  *)
(* exactly one entry for the key and, after the k-th call of a kind, it    *)
(* has calls = k, min and max the smallest and largest duration and total  *)
(* the sum of the durations.                                               *)
C3_OneEntryCounts ==
    ( AllIdle /\ \E k \in Kinds : hist.seq[k] # << >> )
    => /\ { e \in DOMAIN pgss_hash : KeyQuery(e) = 1 } = { StatKey }
       /\ \A k \in Kinds :
            LET s == hist.seq[k]
                n == Len(s)
                sum[i \in 0 .. n] == IF i = 0 THEN 0 ELSE sum[i - 1] + s[i]
                c == pgss_hash[StatKey].counters
            IN  /\ c.calls[k] = n
                /\ c.total_time[k] = sum[n]
                /\ n > 0 => (\E i \in 1 .. n : c.min_time[k] = s[i])
                /\ n > 0 => (\E j \in 1 .. n : c.max_time[k] = s[j])
                /\ \A m \in 1 .. n : c.min_time[k] <= s[m] /\ s[m] <= c.max_time[k]

(* C3, amended: the same, provided no call for the key was turned away by  *)
(* entry_alloc (bucket quota or table limit reached).                      *)
C3_OneEntryCountsIfRoom ==
    ~hist.dropped[1] => C3_OneEntryCounts

(* Scaled 10, 20, 15: three executions counted on one entry. *)
C3_Witness ==
    /\ AllIdle
    /\ ~hist.dropped[1]
    /\ hist.seq[PGSS_EXEC] = << 2, 5, 3 >>
    /\ StatKey \in DOMAIN pgss_hash
    /\ pgss_hash[StatKey].counters.calls[PGSS_EXEC] = 3
    /\ pgss_hash[StatKey].counters.min_time[PGSS_EXEC] = 2
    /\ pgss_hash[StatKey].counters.max_time[PGSS_EXEC] = 5
    /\ pgss_hash[StatKey].counters.total_time[PGSS_EXEC] = 10

(* C4: in the current bucket, as long as it is not rotated and the ring's  *)
(* capacity was not exceeded, locate_query finds every fingerprint stored  *)
(* and returns the text first stored for it, truncated to                  *)
(* PGSM_QUERY_MAX_LEN, whatever was stored afterwards.                     *)
C4_FindAfterStore ==
    \A q \in RingQueryIds :
        ( hist.first[q] # << >> /\ ~hist.exceeded ) =>
          LET found == locate_query(query_fifo[current_wbucket],
                                    pgss_qbuf[current_wbucket], q)
          IN  found.id = q /\ found.query = hist.first[q]

(* C5 as stated: two statements of one shape that differ in their         *)
(* literals and in blanks (before, after or between the tokens) get the    *)
(* same fingerprint and the same canonical text.                           *)
C5_BlanksAnywhere ==
    ( mode = "norm" /\ \A p \in Procs : pc[p] = "done" ) =>
        /\ loc["p1"].queryid = loc["p2"].queryid
        /\ loc["p1"].text = loc["p2"].text

(* C5: two statements of one shape that differ in their literals and in    *)
(* blanks get the same fingerprint; when the blanks between their tokens   *)
(* are the same (they differ in literals and in leading and trailing       *)
(* blanks only) they also get the same canonical text.                     *)
C5_LiteralsAndOuterBlanks ==
    ( mode = "norm" /\ \A p \in Procs : pc[p] = "done" ) =>
        /\ loc["p1"].queryid = loc["p2"].queryid
        /\ loc["p1"].gap = loc["p2"].gap => loc["p1"].text = loc["p2"].text

(* "a 1" and "b; a -3 " are both normalized to "a $1". *)
C5_Witness ==
    /\ mode = "norm"
    /\ \A p \in Procs : pc[p] = "done"
    /\ loc["p1"].src = << 97, 32, 49 >>
    /\ loc["p2"].src = << 98, 59, 32, 97, 32, 45, 51, 32 >>
    /\ loc["p1"].text = << 97, 32, 36, 49 >>
    /\ loc["p2"].text = << 97, 32, 36, 49 >>
    /\ loc["p1"].queryid = loc["p2"].queryid

(* C6: a recorded duration equal to a cell boundary L + S*i is counted in  *)
(* the higher adjacent cell (cell i + 1), and a duration above the top     *)
(* boundary is counted in the last cell; nothing else is counted.          *)
C6_HistogramCells ==
    [][ \A p \in Procs :
          ( pc[p] = "upd" /\ pc'[p] = "exit" ) =>
            LET d == loc[p].total_time
                b == KeyBucket(LocKey(p))
                top == PGSM_RESPOSE_TIME_LOWER_BOUND
                         + PGSM_RESPOSE_TIME_STEP * (MAX_RESPONSE_BUCKET - 2)
            IN  /\ \A i \in 0 .. (MAX_RESPONSE_BUCKET - 2) :
                      d = PGSM_RESPOSE_TIME_LOWER_BOUND + PGSM_RESPOSE_TIME_STEP * i
                      => resp_calls'[b] = [ resp_calls[b] EXCEPT ![i + 1] = @ + 1 ]
                /\ d > top
                      => resp_calls'[b] =
                           [ resp_calls[b] EXCEPT ![MAX_RESPONSE_BUCKET - 1] = @ + 1 ] ]_vars

(* C7: after two or more measurements of a kind on one entry, mean_time is *)
(* the arithmetic mean of the measurements and sum_var_time / calls is     *)
(* their population variance computed in two passes.                       *)
C7_WelfordMatchesTwoPass ==
    \A k \in Kinds :
        ( AllIdle /\ StatKey \in DOMAIN pgss_hash /\ Len(hist.seq[k]) >= 2 ) =>
          LET s == hist.seq[k]
              n == Len(s)
              c == pgss_hash[StatKey].counters
              sum[i \in 0 .. n] == IF i = 0 THEN 0 ELSE sum[i - 1] + s[i]
              mean == Rat(sum[n], n)
              dev[i \in 0 .. n] ==
                  IF i = 0 THEN RatInt(0)
                  ELSE RatAdd(dev[i - 1], RatMul(RatSub(RatInt(s[i]), mean),
                                                 RatSub(RatInt(s[i]), mean)))
          IN  /\ c.mean_time[k] = mean
              /\ RatDivInt(c.sum_var_time[k], c.calls[k]) = RatDivInt(dev[n], n)

(* Scaled 10, 20, 30: mean 2, variance accumulator 2 (variance 2/3). *)
C7_Witness ==
    /\ AllIdle
    /\ StatKey \in DOMAIN pgss_hash
    /\ hist.seq[PGSS_EXEC] = << 1, 2, 3 >>
    /\ pgss_hash[StatKey].counters.mean_time[PGSS_EXEC] = << 2, 1 >>
    /\ pgss_hash[StatKey].counters.sum_var_time[PGSS_EXEC] = << 2, 1 >>

(* What the call of backend p waits for at its place: the table lock, the *)
(* entry's spinlock, or the end of locate_query's scan.                    *)
CanStep(p) ==
    CASE pc[p] \in {"ppa", "obj_x", "gnw_lock", "x_lock"} -> CanExclusive(p)
      [] pc[p] \in {"obj", "find_lock", "norm"} -> CanShared(p)
      [] pc[p] = "sq" -> ScanEnds(current_wbucket, loc[p].queryid)
      [] pc[p] = "upd_lock" -> jstate(p) \/ SpinLockFree(LocKey(p))
      [] pc[p] = "snap" -> loc[p].todo = {} \/ SnapshotCanRead(SnapshotNext(p))
      [] OTHER -> TRUE

(* The order of the places of a call. *)
Rank(l) ==
    CASE l = "idle" -> 0
      [] l \in {"ppa", "snap", "reset"} -> 1
      [] l = "obj" -> 2
      [] l = "obj_x" -> 3
      [] l = "gnw" -> 4
      [] l = "gnw_lock" -> 5
      [] l = "gnw_evict" -> 6
      [] l = "gnw_ts" -> 7
      [] l = "cmp" -> 8
      [] l = "find_lock" -> 9
      [] l = "find" -> 10
      [] l = "norm" -> 11
      [] l = "x_lock" -> 12
      [] l = "alloc" -> 13
      [] l = "alloc2" -> 14
      [] l = "sq" -> 15
      [] l = "sq2" -> 16
      [] l = "upd_lock" -> 17
      [] l = "upd" -> 18
      [] l = "exit" -> 19

(* C8: no reachable state is a deadlock: whenever calls are in flight, one *)
(* of them can take its next step (it is not waiting for the table lock,   *)
(* for an entry's spinlock or inside a scan that does not end); and every  *)
(* step of a call brings it nearer to its return (its place advances, or   *)
(* the snapshot has one entry less to visit), so under fair scheduling     *)
(* every call returns.                                                     *)
C8_NoDeadlock ==
    /\ [] ( (\E p \in Procs : pc[p] # "idle")
             => \E p \in Procs : pc[p] # "idle" /\ CanStep(p) )
    /\ [][ \A p \in Procs :
             ( pc[p] # "idle" /\ << pc[p], loc[p] >> # << pc[p], loc[p] >>' ) =>
                \/ pc'[p] = "idle"
                \/ Rank(pc'[p]) > Rank(pc[p])
                \/ /\ pc[p] = "snap" /\ pc'[p] = "snap"
                   /\ Cardinality(loc'[p].todo) < Cardinality(loc[p].todo) ]_vars

(* C9: the per-bucket entry counts sum to at most PGSM_MAX, and the table  *)
(* holds at most PGSM_MAX entries.                                         *)
C9_CapacityBound ==
    /\ SumOver(bucket_entry, Buckets) <= PGSM_MAX
    /\ Cardinality(DOMAIN pgss_hash) <= PGSM_MAX

(* C10: an entry is created, or its counters change, only when its         *)
(* bucket_id is the current bucket id at that moment.                      *)
C10_OnlyCurrentBucketWritten ==
    [][ \A k \in DOMAIN pgss_hash' :
          ( \/ k \notin DOMAIN pgss_hash
            \/ pgss_hash'[k].counters # pgss_hash[k].counters )
          => KeyBucket(k) = current_wbucket ]_vars

(* C11: a record call that finds its key absent and the table or the       *)
(* current bucket at capacity goes straight to its exit: the step that     *)
(* meets the full table, and the return that follows it, create no entry   *)
(* and no rollup entry, change no entry's counters, store nothing in the   *)
(* text ring, and the call returns holding no lock.                        *)
C11_DropIsSilent ==
    [][ \A p \in Procs :
          LET full == \/ bucket_entry[current_wbucket] >= (PGSM_MAX \div PGSM_MAX_BUCKETS)
                      \/ Cardinality(DOMAIN pgss_hash) >= PGSM_MAX
              kept == /\ pgss_hash' = pgss_hash
                      /\ pgss_agghash' = pgss_agghash
                      /\ resp_calls' = resp_calls
                      /\ query_fifo' = query_fifo
                      /\ pgss_qbuf' = pgss_qbuf
          IN  /\ ( pc[p] = "alloc" /\ pc'[p] # "alloc" /\ full ) =>
                    ( pc'[p] = "exit" /\ kept /\ hist'.dropped[loc[p].queryid] )
              /\ ( pc[p] = "exit" /\ pc'[p] # "exit" /\ hist.dropped[loc[p].queryid]
                     /\ LocKey(p) \notin DOMAIN pgss_hash ) =>
                    ( pc'[p] = "idle" /\ kept /\ ~HoldsLock(p)' ) ]_vars

(* A record call has met the full bucket and has returned; the other       *)
(* fingerprint's entry is all the table holds.                             *)
C11_Witness ==
    /\ mode = "rec"
    /\ \E q \in QueryIds :
         /\ hist.dropped[q]
         /\ hist.done[q] >= 1
         /\ \A k \in DOMAIN pgss_hash : KeyQuery(k) # q
    /\ AllIdle
    /\ DOMAIN pgss_hash # {}

(* C12: every step that removes an entry or a rollup entry is taken while  *)
(* the table lock is held in exclusive mode (so by its holder, with no     *)
(* process holding it in shared mode).                                     *)
C12_RemovalUnderExclusiveLock ==
    [][ ( \/ DOMAIN pgss_hash \ DOMAIN pgss_hash' # {}
          \/ DOMAIN pgss_agghash \ DOMAIN pgss_agghash' # {} )
        => ( lock.x # NoProc /\ lock.s = {} ) ]_vars

(* C13: a backend that has begun a rotation (it evicts, or has evicted and *)
(* has still to write the rotation timestamp or to make its bucket id the  *)
(* current one) holds the table lock in exclusive mode, so that no other   *)
(* call sees the rotation half done.                                       *)
C13_RotationUnderExclusiveLock ==
    \A p \in Procs :
        ( \/ pc[p] \in {"gnw_evict", "gnw_ts"}
          \/ pc[p] = "cmp" /\ loc[p].bucket_id # current_wbucket )
        => lock.x = p

(* C14: every step that inserts an entry or a rollup entry is taken while  *)
(* the table lock is held in exclusive mode.                               *)
C14_CreationUnderExclusiveLock ==
    [][ ( \/ DOMAIN pgss_hash' \ DOMAIN pgss_hash # {}
          \/ DOMAIN pgss_agghash' \ DOMAIN pgss_agghash # {} )
        => ( lock.x # NoProc /\ lock.s = {} ) ]_vars

(* C15: an entry's spinlock is held only by a backend that is at the       *)
(* in-place counter update (the snapshot's copy takes and frees it within  *)
(* one step), under the table lock it already holds: its holder is at no   *)
(* place where the table lock is requested.                                *)
C15_EntryLockNeverAcrossTableLock ==
    \A k \in DOMAIN pgss_hash :
        pgss_hash[k].mutex # NoProc =>
            /\ pc[pgss_hash[k].mutex] = "upd"
            /\ HoldsLock(pgss_hash[k].mutex)

(* One backend updates an entry under its spinlock while the other waits   *)
(* for the table lock.                                                     *)
C15_Witness ==
    /\ \E k \in DOMAIN pgss_hash : pgss_hash[k].mutex = "p1"
    /\ pc["p1"] = "upd"
    /\ lock.x = "p1"
    /\ pc["p2"] \in {"find_lock", "x_lock", "gnw_lock"}

C17_ResetEmptiesTable ==
    [][ \A p \in Procs :
          /\ ( pc[p] = "reset" /\ pc'[p] = "idle" ) =>
                ( pgss_hash' = << >> /\ pgss_agghash' = << >> )
          /\ ( pc[p] = "idle" /\ pc'[p] = "snap" /\ pgss_hash = << >> ) =>
                loc'[p].todo = {} ]_vars

(* C18 as stated: every operation called while the table is not set up     *)
(* ends in a hard error, and leaves the shared state as it was.            *)
C18_NotInitializedHardError ==
    [][ ~IsHashInitialize =>
          /\ storeVars' = storeVars /\ lock' = lock
          /\ \A p \in Procs :
                ( pc[p] # "idle" /\ pc'[p] = "idle" ) => pc[p] = "error" ]_vars

(* C18, amended: while the table is not set up, snapshot and reset end in  *)
(* a hard error, record and register return at once without one; none of  *)
(* them changes the shared state or takes the lock.                        *)
C18_NotInitializedErrorOrReturn ==
    [][ ~IsHashInitialize =>
          /\ storeVars' = storeVars /\ lock' = lock
          /\ \A p \in Procs :
                /\ ( pc[p] \in {"obj", "ppa"} /\ pc'[p] # pc[p] ) => pc'[p] = "idle"
                /\ ( pc[p] = "idle" /\ pc'[p] # "idle"
                       /\ loc'[p].op \in {"snapshot", "reset"} ) => pc'[p] = "error"
                /\ ( pc[p] = "idle" /\ pc'[p] # "idle"
                       /\ loc'[p].op \in {"record", "register"} ) => pc'[p] \in {"obj", "ppa"}
                /\ ( pc[p] = "error" /\ pc'[p] # "error" ) => pc'[p] = "idle" ]_vars

(* A record call of one backend has returned while the other backend's     *)
(* reset has raised its error.                                             *)
C18_Witness ==
    /\ ~IsHashInitialize
    /\ hist.owner[1] = "p2" /\ pc["p2"] = "idle"
    /\ pc["p1"] = "error" /\ loc["p1"].op = "reset"
    /\ hist.ncalls = 2

(* C19: a store into the text ring whose record does not fit (the ring is  *)
(* full, or the record would end past the end of the ring) leaves every    *)
(* record that locate_query returned before it in place: the same          *)
(* fingerprints are found afterwards, each with the same text.             *)
C19_StoreKeepsRecords ==
    [][ ( mode = "ring" /\ hist'.ncalls = hist.ncalls + 1
            /\ ~hist.exceeded /\ hist'.exceeded ) =>
          \A q \in RingQueryIds :
              LET before == locate_query(query_fifo[current_wbucket],
                                         pgss_qbuf[current_wbucket], q)
                  after  == locate_query(query_fifo'[current_wbucket],
                                         pgss_qbuf'[current_wbucket], q)
              IN  before.id = q => ( after.id = q /\ after.query = before.query ) ]_vars

(* C20: fingerprinting never aborts: whatever kinds of expression nodes    *)
(* and range-table entries the query holds, known to the traversal or not, *)
(* the traversal comes to its end and the query gets its fingerprint.      *)
C20_FingerprintNeverAborts ==
    mode = "jumble" =>
        \A p \in Procs : /\ pc[p] # "error"
                         /\ pc[p] = "done" => loc[p].queryid # 0

(* C21: an entry keeps its key from its creation to its removal: no step   *)
(* of record, register, snapshot, reset or rotation takes a key out of the *)
(* table and puts another one in (entries are removed, never re-keyed),    *)
(* and a key enters the table only in entry_alloc, as the caller's key.    *)
C21_KeyNeverChanges ==
    [][ LET gone == DOMAIN pgss_hash \ DOMAIN pgss_hash'
            new  == DOMAIN pgss_hash' \ DOMAIN pgss_hash
        IN  /\ gone # {} => new = {}
            /\ \A k \in new :
                  \E p \in Procs : pc[p] = "alloc2" /\ pc'[p] = "sq" /\ k = LocKey(p)
            /\ Cardinality(new) <= 1 ]_vars

(* An entry of the bucket left behind is still there, under its key, with  *)
(* its counts, after a rotation has made the other bucket current and a    *)
(* record call has created an entry in it.                                 *)
C21_Witness ==
    /\ mode = "conc"
    /\ \E k1 \in DOMAIN pgss_hash, k2 \in DOMAIN pgss_hash :
          /\ KeyBucket(k1) # current_wbucket
          /\ pgss_hash[k1].counters.calls[PGSS_EXEC] = 1
          /\ KeyBucket(k2) = current_wbucket

(* C22: a step of a register call (pgss_store with a jumble state) changes *)
(* no counter of an entry that stays, no histogram cell and no rollup      *)
(* count; it removes entries and rollups only when it evicts the bucket of *)
(* a rotation that was due, creates at most the entry of its own key, with *)
(* zero calls, and writes its text to no ring but the current bucket's.    *)
C22_RegisterChangesNoCounter ==
    [][ \A p \in Procs :
          ( loc[p].op = "register" /\ pc'[p] # pc[p] ) =>
             /\ \A k \in DOMAIN pgss_hash \cap DOMAIN pgss_hash' :
                   pgss_hash'[k].counters = pgss_hash[k].counters
             /\ resp_calls' = resp_calls
             /\ DOMAIN pgss_agghash' \subseteq DOMAIN pgss_agghash
             /\ \A a \in DOMAIN pgss_agghash' : pgss_agghash'[a] = pgss_agghash[a]
             /\ ( DOMAIN pgss_hash \ DOMAIN pgss_hash' # {}
                    \/ DOMAIN pgss_agghash \ DOMAIN pgss_agghash' # {} ) => pc[p] = "gnw_evict"
             /\ \A k \in DOMAIN pgss_hash' \ DOMAIN pgss_hash :
                   /\ k = LocKey(p)
                   /\ \A kind \in Kinds : pgss_hash'[k].counters.calls[kind] = 0
             /\ \A b \in Buckets :
                   ( query_fifo'[b] # query_fifo[b] \/ pgss_qbuf'[b] # pgss_qbuf[b] ) =>
                       \/ pc[p] = "gnw_evict"
                       \/ pc[p] = "sq2" /\ b = current_wbucket ]_vars

(* A register call has returned: its entry is there with zero calls and    *)
(* its text is in the current bucket's ring, next to an entry that a       *)
(* record call has counted.                                                *)
C22_Witness ==
    /\ mode = "conc" /\ AllIdle
    /\ \E k \in DOMAIN pgss_hash :
          /\ \A kind \in Kinds : pgss_hash[k].counters.calls[kind] = 0
          /\ KeyBucket(k) = current_wbucket
          /\ locate_query(query_fifo[current_wbucket], pgss_qbuf[current_wbucket],
                          KeyQuery(k)).id = KeyQuery(k)
    /\ \E k \in DOMAIN pgss_hash : pgss_hash[k].counters.calls[PGSS_EXEC] = 1

(* C23: a snapshot holds the table lock in shared mode from its first to   *)
(* its last entry and copies an entry's counters only when the entry's     *)
(* spinlock is free, while a record call changes the counters of an entry  *)
(* only in one update that begins with the spinlock held by the caller and *)
(* ends with its release: no copy falls inside an update.                  *)
C23_SnapshotCopiesWholeUpdates ==
    [][ \A p \in Procs :
          /\ pc[p] = "snap" => ( p \in lock.s /\ lock.x = NoProc )
          /\ ( pc[p] = "snap" /\ loc'[p].todo # loc[p].todo ) =>
                \A k \in ( loc[p].todo \ loc'[p].todo ) \cap DOMAIN pgss_hash :
                    pgss_hash[k].mutex = NoProc
          /\ \A k \in DOMAIN pgss_hash \cap DOMAIN pgss_hash' :
                ( pgss_hash'[k].counters # pgss_hash[k].counters /\ pc'[p] # pc[p] ) =>
                    /\ pgss_hash[k].mutex = p
                    /\ pgss_hash'[k].mutex = NoProc
                    /\ k = LocKey(p) ]_vars

(* A snapshot is under way and has an entry still to copy whose spinlock   *)
(* a record call holds for its update.                                     *)
C23_Witness ==
    /\ pc["p1"] = "snap" /\ pc["p2"] = "upd"
    /\ \E k \in loc["p1"].todo \cap DOMAIN pgss_hash :
          pgss_hash[k].mutex = "p2" /\ pgss_hash[k].counters.calls[PGSS_EXEC] = 1

(* C24: the rotation of a record call leaves the bucket it reuses with an  *)
(* empty ring (head = tail = 0) and with every cell of its response-time   *)
(* histogram at zero.                                                      *)
C24_RotationResetsRingAndHistogram ==
    [][ \A p \in Procs :
          ( pc[p] = "gnw_evict" /\ pc'[p] = "gnw_ts" ) =>
              /\ query_fifo'[loc[p].bucket_id] = [ head |-> 0, tail |-> 0 ]
              /\ resp_calls'[loc[p].bucket_id] = ZeroResp ]_vars

(* C25: the eviction of a rotation that makes bucket b current removes the *)
(* entries and the rollup entries tagged b, all of them and no other: the  *)
(* entries and rollups of the other buckets stay as they are, and so do    *)
(* the entry counts and the text rings of the other buckets.               *)
C25_RotationEvictsOneBucket ==
    [][ \A p \in Procs :
          ( pc[p] = "gnw_evict" /\ pc'[p] = "gnw_ts" ) =>
              LET b == loc[p].bucket_id
              IN  /\ DOMAIN pgss_hash' = { k \in DOMAIN pgss_hash : KeyBucket(k) # b }
                  /\ \A k \in DOMAIN pgss_hash' : pgss_hash'[k] = pgss_hash[k]
                  /\ DOMAIN pgss_agghash' = { a \in DOMAIN pgss_agghash : a[1] # b }
                  /\ \A a \in DOMAIN pgss_agghash' : pgss_agghash'[a] = pgss_agghash[a]
                  /\ \A o \in Buckets \ {b} :
                        /\ bucket_entry'[o] = bucket_entry[o]
                        /\ query_fifo'[o] = query_fifo[o]
                        /\ pgss_qbuf'[o] = pgss_qbuf[o] ]_vars

(* A rotation has just evicted a bucket that had been used before, and the *)
(* other bucket still has its entry, its rollups and its text.             *)
C25_Witness ==
    /\ mode = "rec" /\ hist.rot >= 2
    /\ \E p \in Procs :
          /\ pc[p] = "gnw_ts"
          /\ \E k \in DOMAIN pgss_hash : KeyBucket(k) # loc[p].bucket_id
          /\ \E a \in DOMAIN pgss_agghash : a[1] # loc[p].bucket_id
          /\ \A k \in DOMAIN pgss_hash : KeyBucket(k) # loc[p].bucket_id
          /\ resp_calls[loc[p].bucket_id] # ZeroResp
          /\ query_fifo[NextBucketId(loc[p].bucket_id)].head > 0

C27_StoreIsIdempotent ==
    mode = "ring" =>
        LET fifo == query_fifo[current_wbucket]
            buf  == pgss_qbuf[current_wbucket]
        IN  \A q \in RingQueryIds, text \in RingTexts :
                locate_query(fifo, buf, q).id = q =>
                    store_query(fifo, buf, q, text, Len(text)) = [ fifo |-> fifo, buf |-> buf ]

(* Two fingerprints are in the ring, with room left for a third record.    *)
C27_Witness ==
    /\ mode = "ring"
    /\ Cardinality({ q \in RingQueryIds :
            locate_query(query_fifo[current_wbucket], pgss_qbuf[current_wbucket], q).id = q }) = 2
    /\ hist.ncalls = 3
    /\ query_fifo[current_wbucket].head = 2 * (HeaderSize + 1)

ScannedText(p) ==
    LET t == StatementText(loc[p].src, loc[p].stmt_location, loc[p].stmt_len)
    IN  Bytes(loc[p].src, t.query_location, Len(loc[p].src) - t.query_location)

(* The scanner finds no token at or after offset at of q, or finds there a *)
(* '-' that no token follows.                                              *)
HitsEndOfInput(q, at) ==
    LET t == LexUntil(q, 0, at)
    IN  \/ t.tok = 0
        \/ at < Len(q) /\ q[at + 1] = 45 /\ core_yylex(q, t.end).tok = 0

(* The numbers N of the "$N" in a text, from left to right. *)
RECURSIVE DollarNumbers(_, _)
DollarNumbers(text, i) ==
    IF i >= Len(text) THEN << >>
    ELSE IF text[i] = 36 /\ text[i + 1] \in 48 .. 57
         THEN << text[i + 1] - 48 >> \o DollarNumbers(text, i + 2)
         ELSE DollarNumbers(text, i + 1)

(* The constants of a parsed statement that stand at an offset of their    *)
(* own (a duplicate repeats the offset of the node before it).             *)
DistinctConsts(tree) ==
    { i \in 1 .. Len(tree) :
        /\ tree[i].type = T_Const
        /\ \A j \in 1 .. (i - 1) : tree[j].location # tree[i].location }

(* The numbers the claim expects in the canonical text: an external        *)
(* parameter keeps its number, the constants get the highest external      *)
(* number plus 1, 2, ... from left to right.                               *)
RECURSIVE ExpectedNumbers(_, _, _)
ExpectedNumbers(tree, highest, i) ==
    IF i > Len(tree) THEN << >>
    ELSE ( IF tree[i].type = T_Param THEN << tree[i].b >>
           ELSE IF i \in DistinctConsts(tree)
                THEN << highest + Cardinality({ j \in DistinctConsts(tree) : j <= i }) >>
                ELSE << >> )
         \o ExpectedNumbers(tree, highest, i + 1)

(* C29: in the canonical text the substituted placeholders are numbered    *)
(* from the highest external parameter number plus one, increasing by one  *)
(* from left to right, also when a constant's offset was recorded twice    *)
(* (statements all of whose constants the scanner resolves).               *)
C29_PlaceholdersConsecutive ==
    \A p \in Procs :
        ( /\ mode = "norm" /\ pc[p] = "done" /\ Len(loc[p].clocations) > 0
          /\ \A i \in 1 .. Len(loc[p].clocations) :
                ~HitsEndOfInput(ScannedText(p),
                     loc[p].clocations[i].location
                       - StatementText(loc[p].src, loc[p].stmt_location,
                                       loc[p].stmt_len).query_location) ) =>
            DollarNumbers(loc[p].text, 1)
                = ExpectedNumbers(loc[p].tree, loc[p].highest_extern_param_id, 1)

(* C30: when the scanner reaches the end of the input at a recorded        *)
(* location, that location and all later ones keep length -1, and the      *)
(* canonical text is the one the statement gets from the locations before  *)
(* it alone: their literals replaced by placeholders, the text from the    *)
(* unresolved location on copied as it stands.                             *)
C30_EndOfInputKeepsRest ==
    \A p \in Procs :
        ( mode = "norm" /\ pc[p] = "done" /\ Len(loc[p].clocations) > 0 ) =>
            LET t    == StatementText(loc[p].src, loc[p].stmt_location, loc[p].stmt_len)
                q    == ScannedText(p)
                locs == fill_in_constant_lengths(loc[p].clocations, q, t.query_location)
            IN  \A i \in 1 .. Len(locs) :
                    LET at == locs[i].location - t.query_location
                    IN  HitsEndOfInput(q, at) =>
                          /\ \A j \in i .. Len(locs) : locs[j].length = -1
                          /\ loc[p].text =
                                generate_normalized_query(
                                    SubSeq(locs, 1, i - 1), loc[p].highest_extern_param_id,
                                    q, t.query_location, t.query_len)
                          /\ at < t.query_len =>
                                SubSeq(loc[p].text, Len(loc[p].text) - (t.query_len - at) + 1,
                                       Len(loc[p].text))
                                  = Bytes(q, at, t.query_len - at)

(* "b; a 22 -" is normalized to "a $1 -": the constant recorded at the     *)
(* final '-' stays unresolved and its text is kept.                        *)
C30_Witness ==
    /\ mode = "norm"
    /\ pc["p2"] = "done"
    /\ loc["p2"].src = << 98, 59, 97, 32, 50, 50, 32, 45 >>
    /\ Len(loc["p2"].clocations) = 2
    /\ HitsEndOfInput(ScannedText("p2"), 5)
    /\ loc["p2"].text = << 97, 32, 36, 49, 32, 45 >>

(* The accumulator a stream of bytes leaves when they are appended one by  *)
(* one, a full accumulator being replaced by its hash first.               *)
RECURSIVE FoldStream(_, _, _)
FoldStream(stream, i, acc) ==
    IF i > Len(stream) THEN acc
    ELSE FoldStream(stream, i + 1,
                    IF Len(acc) >= JUMBLE_SIZE
                    THEN << hash_any_extended(acc), stream[i] >>
                    ELSE Append(acc, stream[i]))

(* C31: the accumulator never holds more than JUMBLE_SIZE bytes; it is     *)
(* what the bytes consumed so far leave when a full accumulator is folded  *)
(* into its hash before the next byte; every turn of the loop consumes at  *)
(* least one byte of the item, so each append ends with the whole item     *)
(* consumed.                                                               *)
C31_JumbleBoundedAndConsumed ==
    [][ \A p \in Procs :
          mode = "append" =>
            /\ Len(loc'[p].jumble) <= JUMBLE_SIZE
            /\ loc'[p].jumble =
                 FoldStream(SubSeq(loc'[p].stream, 1,
                                   Len(loc'[p].stream) - loc'[p].size), 1, << >>)
            /\ ( pc[p] = "append" /\ pc'[p] = "append" ) =>
                   /\ loc'[p].size < loc[p].size
                   /\ loc'[p].size >= 0
            /\ ( pc'[p] = "append" /\ loc'[p].size > 0 ) =>
                   Len(AppendJumblePart(loc'[p].jumble, loc'[p].item).item)
                     < loc'[p].size
            /\ ( pc[p] = "append" /\ pc'[p] = "idle" ) => loc[p].size = 0 ]_vars

(* The third append has returned after folding a full accumulator twice    *)
(* within the one call.                                                    *)
C31_Witness ==
    /\ mode = "append"
    /\ pc["p1"] = "idle"
    /\ hist.ncalls = MaxAppends
    /\ Len(loc["p1"].item) = 0
    /\ Len(loc["p1"].stream) >= 2 * JUMBLE_SIZE + MaxItemSize
    /\ loc["p1"].jumble
         = FoldStream(loc["p1"].stream, 1, << >>)
    /\ Len(loc["p1"].jumble) = JUMBLE_SIZE

(* C32: entry_reset completes, and when it has, the statistics table, the  *)
(* rollup table, the bucket table and the wait-sample table are all empty, *)
(* whatever they held before.                                              *)
C32_EntryResetEmptiesAll ==
    \A p \in Procs :
        mode = "unload" =>
            /\ pc[p] # "crashed"
            /\ pc[p] = "done" =>
                  /\ DOMAIN pgss_hash = {}
                  /\ DOMAIN pgss_agghash = {}
                  /\ loc[p].buckethash = {}
                  /\ loc[p].waiteventshash = {}

(* C33: whenever no call is under way, the entry count of every bucket is  *)
(* the number of entries of the table whose key carries that bucket id;    *)
(* so after a reset every count is 0.                                      *)
C33_BucketEntryCountsEntries ==
    AllIdle =>
        \A b \in Buckets :
            bucket_entry[b] = Cardinality({ k \in DOMAIN pgss_hash : KeyBucket(k) = b })

(* C35: every measurement applied to an entry adds exactly one to the sum  *)
(* of the cells of its bucket's response-time histogram.                   *)
C35_OneCellPerMeasurement ==
    [][ \A p \in Procs :
          ( pc[p] = "upd" /\ pc'[p] = "exit" /\ LocKey(p) \in DOMAIN pgss_hash ) =>
            LET b == KeyBucket(LocKey(p))
                cells == 0 .. (MAX_RESPONSE_BUCKET - 1)
            IN  SumOver(resp_calls'[b], cells) = SumOver(resp_calls[b], cells) + 1 ]_vars

(* C34: the current bucket id changes only to the bucket the latest        *)
(* rotation has made ready, b + 1 modulo the number of buckets: no backend *)
(* that resolved its bucket id before another backend's rotation sets the  *)
(* current bucket id back to the earlier bucket.                           *)
C34_CurrentBucketOnlyAdvances ==
    [][ current_wbucket' # current_wbucket =>
          /\ current_wbucket' = NextBucketId(current_wbucket)
          /\ hist.rot >= 1
          /\ current_wbucket' = hist.last ]_vars

(* total_calls of a rollup entry, 0 when the table has none of that key. *)
AggCalls(bucket, type, id, queryid) ==
    IF AggKey(bucket, type, id, queryid) \in DOMAIN pgss_agghash
    THEN pgss_agghash[AggKey(bucket, type, id, queryid)] ELSE 0

(* The calls of both kinds of the entries of fingerprint q, bucket b and   *)
(* the users us.                                                           *)
EntryCallsOf(us, q, b) ==
    LET ks == { k \in DOMAIN pgss_hash : k[1] \in us /\ k[2] = DbId /\ k[3] = q /\ k[4] = b }
    IN  SumOver([ k \in ks |-> pgss_hash[k].counters.calls[PGSS_PLAN]
                                + pgss_hash[k].counters.calls[PGSS_EXEC] ], ks)

(* All calls the rollup entries of one dimension have counted. *)
AggTotal(h, type) ==
    LET ks == { k \in DOMAIN h : k[2] = type } IN SumOver([ k \in ks |-> h[k] ], ks)

(* C36: for every bucket and fingerprint the database rollup has counted   *)
(* the calls of the entries of all users and both kinds, and each user's   *)
(* rollup the calls of that user's entry; every applied measurement adds   *)
(* one call to one rollup entry of each dimension.                         *)
C36_RollupsSumEntries ==
    [][ /\ \A b \in Buckets, q \in QueryIds :
             /\ AggCalls(b, AGG_KEY_DATABASE, DbId, q)' = EntryCallsOf(UserIds, q, b)'
             /\ \A u \in UserIds :
                   AggCalls(b, AGG_KEY_USER, u, q)' = EntryCallsOf({u}, q, b)'
        /\ \A p \in Procs :
             ( pc[p] = "upd" /\ pc'[p] = "exit" ) =>
                /\ \A t \in {AGG_KEY_DATABASE, AGG_KEY_USER, AGG_KEY_HOST} :
                      AggTotal(pgss_agghash', t) = AggTotal(pgss_agghash, t) + 1
                /\ \A k \in DOMAIN pgss_agghash' :
                      pgss_agghash'[k] <= (IF k \in DOMAIN pgss_agghash
                                           THEN pgss_agghash[k] ELSE 0) + 1 ]_vars

(* Two users have run the statement of fingerprint 1 in bucket 0, one of   *)
(* them twice: the database rollup holds 3 calls, the users' 2 and 1.      *)
C36_Witness ==
    /\ mode = "sticky"
    /\ AllIdle
    /\ AggCalls(0, AGG_KEY_DATABASE, DbId, 1) = 3
    /\ AggCalls(0, AGG_KEY_USER, UserId, 1) = 2
    /\ AggCalls(0, AGG_KEY_USER, UserId + 1, 1) = 1
    /\ EntryCallsOf({UserId}, 1, 0) = 2
    /\ EntryCallsOf({UserId + 1}, 1, 0) = 1

(* C37: with normalization enabled, the text a bucket's ring holds for the *)
(* fingerprint of a statement with literals (every call for it follows a   *)
(* registration of it) is the normalized text, never the raw one, whatever *)
(* the calls and rotations before.                                         *)
C37_RingHoldsNormalizedText ==
    ( mode = "sticky" /\ PGSM_NORMALIZED_QUERY ) =>
        \A b \in Buckets, q \in hist.registered \ hist.plain :
            LET found == locate_query(query_fifo[b], pgss_qbuf[b], q)
            IN  found.id = q => found.query = NormText(q)

C39_ResetZeroesOnlyFreshEntries ==
    [][ \A p \in Procs :
          /\ ( /\ pc[p] = "upd" /\ pc'[p] = "exit"
               /\ loc[p].reset
               /\ LocKey(p) \in DOMAIN pgss_hash ) =>
                 \A kind \in Kinds : pgss_hash[LocKey(p)].counters.calls[kind] = 0
          /\ ( /\ pc[p] = "gnw_evict" /\ pc'[p] = "gnw_ts"
               /\ loc[p].bucket_id = current_wbucket ) =>
                 \A k \in DOMAIN pgss_hash :
                    KeyBucket(k) = loc[p].bucket_id =>
                       \A kind \in Kinds : pgss_hash[k].counters.calls[kind] = 0 ]_vars

(* C40: every access to the text ring stays inside the ring: whatever the  *)
(* head and the text, a store that writes its record writes the header and *)
(* the text at offsets in [0, query_buf_size_bucket) only, and a lookup,   *)
(* with or without a copy of the text, reads at such offsets only.         *)
C40_RingAccessStaysInside ==
    mode = "ring" =>
        LET fifo == query_fifo[current_wbucket]
            buf  == pgss_qbuf[current_wbucket]
        IN  \A q \in RingQueryIds :
              /\ \A withText \in BOOLEAN :
                    LocateReadOffsets(fifo, buf, q, withText) \subseteq RingOffsets
              /\ \A text \in RingTexts :
                    StoreDecision(fifo, buf, q, Len(text)) = "write" =>
                        StoreWriteOffsets(fifo, Len(text)) \subseteq RingOffsets

====
